---- MODULE Spec2Model ----
(***************************************************************************)
(* Model of the cloud abstraction layer MCP server: the SecurityValidator, *)
(* the CommandExecutor and the run-command tools of GcpTools / AzureTools. *)
(*                                                                         *)
(* A command is a sequence of one-character strings, so that trim(),       *)
(* toLowerCase(), startsWith() and includes() are computed character by    *)
(* character.  Messages, invocations and response texts are strings.       *)
(***************************************************************************)
EXTENDS Integers, Sequences, FiniteSets, TLC

VARIABLES
  calls,      \* one record per dispatch slot: a call of handleTool in flight
  input,      \* the command handed to the validator (validator specification)
  outcome,    \* what the two validators answered for input
  storage     \* GcpTools.storage: TRUE when the constructor got a GCS client

vars == <<calls, input, outcome, storage>>

(***************************************************************************)
(* Bounds.                                                                 *)
(***************************************************************************)
MaxCalls == 1
MaxChunks == 3
MaxInFlight == 2

(***************************************************************************)
(* JavaScript strings, character by character.                             *)
(***************************************************************************)
UpperChars == <<"A","B","C","D","E","F","G","H","I","J","K","L","M",
                "N","O","P","Q","R","S","T","U","V","W","X","Y","Z">>
LowerChars == <<"a","b","c","d","e","f","g","h","i","j","k","l","m",
                "n","o","p","q","r","s","t","u","v","w","x","y","z">>
WhiteSpace == {" ", "\t", "\n"}

RECURSIVE Str(_)
Str(s) == IF s = <<>> THEN "" ELSE s[1] \o Str(Tail(s))

\* bug: a letter is left in its case
toLowerCaseChar_Identity(c) == c

toLowerCaseChar(c) ==
  IF \E k \in 1..Len(UpperChars) : UpperChars[k] = c
    THEN LowerChars[CHOOSE k \in 1..Len(UpperChars) : UpperChars[k] = c]
    ELSE c

\* bug: the comparison keeps the letter case
toLowerCase_KeepsCase(s) == s

toLowerCase(s) == [k \in 1..Len(s) |-> toLowerCaseChar(s[k])]

RECURSIVE trimStart(_)
trimStart(s) ==
  IF s # <<>> /\ s[1] \in WhiteSpace THEN trimStart(Tail(s)) ELSE s

RECURSIVE trimEnd(_)
trimEnd(s) ==
  IF s # <<>> /\ s[Len(s)] \in WhiteSpace
    THEN trimEnd(SubSeq(s, 1, Len(s) - 1))
    ELSE s

\* bug: the surrounding whitespace is kept
trim_KeepsWhitespace(s) == s

trim(s) == trimEnd(trimStart(s))

startsWith(s, p) == Len(p) <= Len(s) /\ SubSeq(s, 1, Len(p)) = p

\* bug: the token is looked for at the start only
includes_AtStartOnly(s, p) == startsWith(s, p)

includes(s, p) ==
  \E k \in 0..(Len(s) - Len(p)) : SubSeq(s, k + 1, k + Len(p)) = p

(***************************************************************************)
(* SecurityValidator.                                                      *)
(***************************************************************************)
MAX_TIMEOUT_MS == 30000
MAX_BUFFER_SIZE == 10 * 1024 * 1024

BLOCKED_GCP_COMMANDS ==
  << <<"a","u","t","h">>,
     <<"c","o","n","f","i","g">>,
     <<"i","n","i","t">>,
     <<"b","e","t","a">>,
     <<"a","l","p","h","a">> >>

BLOCKED_AZURE_COMMANDS ==
  << <<"l","o","g","i","n">>,
     <<"a","c","c","o","u","n","t">>,
     <<"c","o","n","f","i","g">> >>

FORMAT_TOKEN == <<"-","-","f","o","r","m","a","t">>
EVAL_TOKEN == <<"e","v","a","l">>

\* { valid: true } carries no reason; { valid: false, reason } does
Valid == [valid |-> TRUE, hasReason |-> FALSE, reason |-> ""]
Invalid(reason) == [valid |-> FALSE, hasReason |-> TRUE, reason |-> reason]

BlockedReason(blocked) ==
  "Command blocked: " \o Str(blocked)
    \o " commands are not allowed for security reasons"

\* bug: an entry is looked for anywhere in the command
FirstBlocked_Anywhere(list, normalizedCommand) ==
  IF \E k \in 1..Len(list) : includes(normalizedCommand, list[k])
    THEN CHOOSE k \in 1..Len(list) :
           /\ includes(normalizedCommand, list[k])
           /\ \A j \in 1..(k - 1) : ~includes(normalizedCommand, list[j])
    ELSE 0

\* the for loop over a denylist: the first entry that is a prefix, or 0
FirstBlocked(list, normalizedCommand) ==
  IF \E k \in 1..Len(list) : startsWith(normalizedCommand, list[k])
    THEN CHOOSE k \in 1..Len(list) :
           /\ startsWith(normalizedCommand, list[k])
           /\ \A j \in 1..(k - 1) : ~startsWith(normalizedCommand, list[j])
    ELSE 0

validateGcpCommand(command) ==
  IF command = <<>> \/ Len(trim(command)) = 0
    THEN Invalid("Empty command")
    ELSE LET normalizedCommand == toLowerCase(trim(command))
             b == FirstBlocked(BLOCKED_GCP_COMMANDS, normalizedCommand)
         IN  IF b # 0
               THEN Invalid(BlockedReason(BLOCKED_GCP_COMMANDS[b]))
               ELSE IF /\ includes(normalizedCommand, FORMAT_TOKEN)
                       /\ includes(normalizedCommand, EVAL_TOKEN)
                      THEN Invalid("Potentially dangerous format evaluation detected")
                      ELSE Valid

validateAzureCommand(command) ==
  IF command = <<>> \/ Len(trim(command)) = 0
    THEN Invalid("Empty command")
    ELSE LET normalizedCommand == toLowerCase(trim(command))
             b == FirstBlocked(BLOCKED_AZURE_COMMANDS, normalizedCommand)
         IN  IF b # 0
               THEN Invalid(BlockedReason(BLOCKED_AZURE_COMMANDS[b]))
               ELSE Valid

getMaxTimeout == MAX_TIMEOUT_MS

\* a cap of one MiB
getMaxBufferSize_OneMiB == 1024 * 1024

getMaxBufferSize == MAX_BUFFER_SIZE

(***************************************************************************)
(* Inputs of the validator specification: every concatenation of at most   *)
(* MaxChunks chunks, and the commands of the end-to-end scenarios.         *)
(***************************************************************************)
Chunks ==
  { <<"a","u","t","h">>, <<"A","U","T","H">>,
    <<"c","o","n","f","i","g">>, <<"i","n","i","t">>,
    <<"b","e","t","a">>, <<"a","l","p","h","a">>,
    <<"l","o","g","i","n">>, <<"A","c","c","o","u","n","t">>,
    <<" ">>, <<"\t">>,
    <<"-","-","f","o","r","m","a","t">>, <<"-","-","F","O","R","M","A","T">>,
    <<"e","v","a","l">>, <<"E","v","A","L">>,
    <<"l","i","s","t">>, <<"x">> }

RECURSIVE Concats(_)
Concats(n) ==
  IF n = 0 THEN { <<>> }
  ELSE LET shorter == Concats(n - 1)
       IN  shorter \cup { c \o s : c \in Chunks, s \in shorter }

AuthList == <<"a","u","t","h"," ","l","i","s","t">>
ComputeInstancesList ==
  <<"c","o","m","p","u","t","e"," ","i","n","s","t","a","n","c","e","s",
    " ","l","i","s","t">>

ValidatorInputs == Concats(MaxChunks) \cup {AuthList, ComputeInstancesList}

NoOutcome == [called |-> FALSE, valid |-> FALSE, hasReason |-> FALSE, reason |-> ""]
Answer(v) ==
  [called |-> TRUE, valid |-> v.valid, hasReason |-> v.hasReason, reason |-> v.reason]

(***************************************************************************)
(* JavaScript values that are a number, a string or null (error.code,      *)
(* CommandResult.exitCode).                                                *)
(***************************************************************************)
JsNull == [t |-> "null", n |-> 0, s |-> ""]
JsNum(n) == [t |-> "number", n |-> n, s |-> ""]
JsStr(s) == [t |-> "string", n |-> 0, s |-> s]

Truthy(v) == (v.t = "number" /\ v.n # 0) \/ (v.t = "string" /\ v.s # "")

\* a || b
Or(a, b) == IF Truthy(a) THEN a ELSE b

\* v !== 0
NotStrictlyZero(v) == ~(v.t = "number" /\ v.n = 0)

\* s || t on strings
OrStr(s, t) == IF s # "" THEN s ELSE t

(***************************************************************************)
(* JSON.stringify(value, null, 2) of { stdout, stderr, exitCode }.  The    *)
(* strings of the model hold no character that JSON escapes.               *)
(***************************************************************************)
Quote(s) == "\"" \o s \o "\""

JsonValue(v) ==
  CASE v.t = "number" -> ToString(v.n)
    [] v.t = "string" -> Quote(v.s)
    [] OTHER -> "null"

JsonStringifyResult(r) ==
  "{\n  \"stdout\": " \o Quote(r.stdout)
    \o ",\n  \"stderr\": " \o Quote(r.stderr)
    \o ",\n  \"exitCode\": " \o JsonValue(r.exitCode) \o "\n}"

(***************************************************************************)
(* Calls.  A call is one dispatch of handleTool; it suspends at the await  *)
(* of execAsync and resumes when the child process settles.                *)
(***************************************************************************)
CallIds == 1..MaxCalls

NoArgs == [hasCommand |-> FALSE, command |-> <<>>, hasScope |-> FALSE, scope |-> ""]
NoValidation == [called |-> FALSE, valid |-> FALSE, hasReason |-> FALSE, reason |-> ""]
NoOptions == [timeout |-> 0, maxBuffer |-> 0]
NoChild == [status |-> "none", stdout |-> "", stderr |-> "", hasCode |-> FALSE, code |-> 0]
NoError == [has |-> FALSE, message |-> "", code |-> JsNull, stdout |-> "", stderr |-> "", killed |-> FALSE]
NoResult == [has |-> FALSE, stdout |-> "", stderr |-> "", exitCode |-> JsNull]
NoThrown == [has |-> FALSE, message |-> ""]
NoResponse == [has |-> FALSE, text |-> "", isError |-> FALSE]

\* the arguments other than command and projectId / subscriptionId; an
\* absent string argument and an empty one are both <<>> or "" (the
\* handlers only test them with !x)
NoParams ==
  [instance |-> <<>>, zone |-> <<>>, status |-> <<>>, machineType |-> <<>>,
   hasLabels |-> FALSE, labels |-> <<>>, resourceGroup |-> <<>>,
   bucketName |-> "", objectName |-> "", accountName |-> "",
   containerName |-> "", blobName |-> "",
   hasMaxResults |-> FALSE, maxResults |-> 0]

\* what the dispatch did with the cloud SDKs: clients constructed, requests
\* made, items drawn from an enumeration, and the state of the request
NoSdk ==
  [clients |-> 0, requests |-> 0, drawn |-> 0, status |-> "none", size |-> 0,
   message |-> ""]

\* what the front-end sent back
NoReply ==
  [sent |-> FALSE, raised |-> FALSE, status |-> 0, hasEnvelope |-> FALSE,
   envelope |-> NoResponse, error |-> ""]

\* what the front-end received besides the name: a mapping of arguments,
\* under the key arguments (hasArguments) or as the other keys of the body
NoRequest == [hasArguments |-> FALSE, args |-> NoArgs, params |-> NoParams]

IdleCall ==
  [pc |-> "idle", name |-> "", args |-> NoArgs, provider |-> "",
   validation |-> NoValidation, fullCommand |-> "", spawns |-> 0,
   options |-> NoOptions, child |-> NoChild, error |-> NoError,
   result |-> NoResult, thrown |-> NoThrown, response |-> NoResponse,
   frontend |-> "", toolName |-> <<>>, params |-> NoParams,
   command |-> <<>>, step |-> "", steps |-> <<>>,
   sdk |-> NoSdk, hasEntries |-> FALSE, entries |-> <<>>, reply |-> NoReply,
   request |-> NoRequest]

InitValidator ==
  /\ input \in ValidatorInputs
  /\ outcome = [gcp |-> NoOutcome, azure |-> NoOutcome]
  /\ calls = [i \in 1..MaxCalls |-> IdleCall]
  /\ storage = TRUE

ValidateGcp ==
  /\ ~outcome.gcp.called
  /\ outcome' = [outcome EXCEPT !.gcp = Answer(validateGcpCommand(input))]
  /\ UNCHANGED <<input, calls, storage>>

ValidateAzure ==
  /\ ~outcome.azure.called
  /\ outcome' = [outcome EXCEPT !.azure = Answer(validateAzureCommand(input))]
  /\ UNCHANGED <<input, calls, storage>>

NextValidator == ValidateGcp \/ ValidateAzure

SpecValidator == InitValidator /\ [][NextValidator]_vars

(***************************************************************************)
(* CommandExecutor.                                                        *)
(***************************************************************************)
\* if (projectId) / if (subscriptionId): absent and "" are both falsy
Supplied(args) == args.hasScope /\ args.scope # ""

\* bug: the normalized command is executed instead of the raw one
gcpFullCommand_Normalized(command, args) ==
  IF Supplied(args)
    THEN "gcloud " \o Str(toLowerCase(trim(command))) \o " --project=" \o args.scope
    ELSE "gcloud " \o Str(toLowerCase(trim(command)))

gcpFullCommand(command, args) ==
  IF Supplied(args)
    THEN "gcloud " \o Str(command) \o " --project=" \o args.scope
    ELSE "gcloud " \o Str(command)

azureFullCommand(command, args) ==
  IF Supplied(args)
    THEN "az " \o Str(command) \o " --subscription " \o args.scope
    ELSE "az " \o Str(command)

validate(provider, command) ==
  IF provider = "gcp" THEN validateGcpCommand(command)
                      ELSE validateAzureCommand(command)

fullCommandOf(provider, command, args) ==
  IF provider = "gcp" THEN gcpFullCommand(command, args)
                      ELSE azureFullCommand(command, args)

\* bug: the reason of the validator is dropped
ValidationError_Generic(validation) ==
  [has |-> TRUE, message |-> "Command validation failed"]

\* throw new Error(validation.reason || 'Command validation failed')
ValidationError(validation) ==
  [has |-> TRUE, message |-> OrStr(validation.reason, "Command validation failed")]

\* bug: the timeout option is not passed; exec then sets no timer (0)
execOptions_NoTimeout == [timeout |-> 0, maxBuffer |-> getMaxBufferSize]

execOptions == [timeout |-> getMaxTimeout, maxBuffer |-> getMaxBufferSize]

\* return { stdout: stdout || '', stderr: stderr || '', exitCode: 0 }
ResolvedResult(stdout, stderr) ==
  [has |-> TRUE, stdout |-> OrStr(stdout, ""), stderr |-> OrStr(stderr, ""),
   exitCode |-> JsNum(0)]

\* bug: no fallback to error.message when the child wrote no stderr
CaughtResult_NoMessage(error) ==
  [has |-> TRUE,
   stdout |-> OrStr(error.stdout, ""),
   stderr |-> OrStr(error.stderr, ""),
   exitCode |-> Or(error.code, JsNum(1))]

\* bug: a failure without an exit code is reported as exit code 0
CaughtResult_ZeroFallback(error) ==
  [has |-> TRUE,
   stdout |-> OrStr(error.stdout, ""),
   stderr |-> OrStr(error.stderr, OrStr(error.message, "")),
   exitCode |-> Or(error.code, JsNum(0))]

\* catch (error): { stdout: error.stdout || '', stderr: error.stderr ||
\* error.message || '', exitCode: error.code || 1 }
CaughtResult(error) ==
  [has |-> TRUE,
   stdout |-> OrStr(error.stdout, ""),
   stderr |-> OrStr(error.stderr, OrStr(error.message, "")),
   exitCode |-> Or(error.code, JsNum(1))]

(***************************************************************************)
(* child_process.exec as the executor uses it: the error object that the   *)
(* promisified exec rejects with, for each way the child can fail.         *)
(***************************************************************************)
ExitCodes == {0, 1, 2}
StdoutData == "data"
StderrData == "warn"

\* non-zero exit: code is the exit status
ExitError(cmd, code, stdout, stderr) ==
  [has |-> TRUE, message |-> "Command failed: " \o cmd \o "\n" \o stderr,
   code |-> JsNum(code), stdout |-> stdout, stderr |-> stderr, killed |-> FALSE]

\* timeout: the child is killed with SIGTERM, there is no exit status
TimeoutError(cmd, stdout, stderr) ==
  [has |-> TRUE, message |-> "Command failed: " \o cmd \o "\n" \o stderr,
   code |-> JsNull, stdout |-> stdout, stderr |-> stderr, killed |-> TRUE]

\* output beyond maxBuffer: the child is killed, code is an identifier
MaxBufferError(stream, stdout, stderr) ==
  [has |-> TRUE, message |-> stream \o " maxBuffer length exceeded",
   code |-> JsStr("ERR_CHILD_PROCESS_STDIO_MAXBUFFER"),
   stdout |-> stdout, stderr |-> stderr, killed |-> TRUE]

\* the shell could not be launched: code is the errno identifier
SpawnError ==
  [has |-> TRUE, message |-> "spawn /bin/sh ENOENT", code |-> JsStr("ENOENT"),
   stdout |-> "", stderr |-> "", killed |-> FALSE]

(***************************************************************************)
(* GcpTools / AzureTools: handleTool and the run-command handlers.         *)
(***************************************************************************)
ToolNames == {"gcp_run_gcloud_command", "azure_run_az_command"}

ProviderOf(name) == IF name = "gcp_run_gcloud_command" THEN "gcp" ELSE "azure"

\* catch (error) of handleTool
ErrorEnvelope(message) ==
  [has |-> TRUE, text |-> "Error: " \o OrStr(message, "Error"), isError |-> TRUE]

\* the envelope with the stdout of the result as its text
ResultEnvelope_StdoutOnly(result) ==
  [has |-> TRUE, text |-> result.stdout,
   isError |-> NotStrictlyZero(result.exitCode)]

\* the envelope of handleRunGcloudCommand / handleRunAzCommand
ResultEnvelope(result) ==
  [has |-> TRUE, text |-> JsonStringifyResult(result),
   isError |-> NotStrictlyZero(result.exitCode)]

\* if (!command)
CommandMissing(args) == ~args.hasCommand \/ args.command = <<>>

(***************************************************************************)
(* JSON.parse of the stdout of a command and JSON.stringify(value, null,   *)
(* 2) of what was parsed.  StdoutJson is a JSON text (an empty array, not  *)
(* in the layout that stringify gives); StdoutData is not a JSON text.     *)
(***************************************************************************)
StdoutJson == "[ ]"

JsonParses(text) == text = StdoutJson

\* JSON.stringify(JSON.parse(text), null, 2), for a text that parses
JsonReformat(text) == "[]"

(***************************************************************************)
(* The commands that the fixed-template handlers build.                    *)
(***************************************************************************)
listInstancesCommand(p) ==
  <<"c","o","m","p","u","t","e"," ","i","n","s","t","a","n","c","e","s"," ","l","i","s","t">>
    \o (IF p.zone # <<>> THEN <<" ","-","-","z","o","n","e","s","=">> \o p.zone ELSE <<>>)
    \o (IF p.status # <<>>
          THEN <<" ","-","-","f","i","l","t","e","r","=","\"","s","t","a","t","u","s",":">> \o p.status \o <<"\"">>
          ELSE <<>>)
    \o <<" ","-","-","f","o","r","m","a","t","=","j","s","o","n">>

startInstanceCommand(p) ==
  <<"c","o","m","p","u","t","e"," ","i","n","s","t","a","n","c","e","s"," ","s","t","a","r","t"," ">> \o p.instance \o <<" ","-","-","z","o","n","e","=">> \o p.zone

stopInstanceCommand(p) ==
  <<"c","o","m","p","u","t","e"," ","i","n","s","t","a","n","c","e","s"," ","s","t","o","p"," ">> \o p.instance \o <<" ","-","-","z","o","n","e","=">> \o p.zone

restartInstanceCommand(p) ==
  <<"c","o","m","p","u","t","e"," ","i","n","s","t","a","n","c","e","s"," ","r","e","s","e","t"," ">> \o p.instance \o <<" ","-","-","z","o","n","e","=">> \o p.zone

instanceInfoCommand(p) ==
  <<"c","o","m","p","u","t","e"," ","i","n","s","t","a","n","c","e","s"," ","d","e","s","c","r","i","b","e"," ">>
    \o p.instance \o <<" ","-","-","z","o","n","e","=">> \o p.zone \o <<" ","-","-","f","o","r","m","a","t","=","j","s","o","n">>

machineTypeCommand(p) ==
  <<"c","o","m","p","u","t","e"," ","i","n","s","t","a","n","c","e","s"," ","s","e","t","-","m","a","c","h","i","n","e","-","t","y","p","e"," ">>
    \o p.instance \o <<" ","-","-","z","o","n","e","=">> \o p.zone
    \o (IF p.machineType # <<>>
          THEN <<" ","-","-","m","a","c","h","i","n","e","-","t","y","p","e","=">> \o p.machineType
          ELSE <<>>)

\* p.labels is labelsStr, the key=value pairs joined with commas
labelCommand(p) ==
  <<"c","o","m","p","u","t","e"," ","i","n","s","t","a","n","c","e","s"," ","a","d","d","-","l","a","b","e","l","s"," ">>
    \o p.instance \o <<" ","-","-","z","o","n","e","=">> \o p.zone
    \o <<" ","-","-","l","a","b","e","l","s","=">> \o p.labels

storageAccountsCommand(p) ==
  <<"s","t","o","r","a","g","e"," ","a","c","c","o","u","n","t"," ","l","i","s","t">>
    \o (IF p.resourceGroup # <<>>
          THEN <<" ","-","-","r","e","s","o","u","r","c","e","-","g","r","o","u","p"," ">> \o p.resourceGroup
          ELSE <<>>)

(***************************************************************************)
(* The handlers, as functions of the call record: each gives the record at *)
(* the next await of the handler or at its return.                         *)
(***************************************************************************)
\* a throw inside handleTool: its catch makes the envelope
Throw(c, message) ==
  [c EXCEPT !.pc = "done",
            !.thrown = [has |-> TRUE, message |-> message],
            !.response = ErrorEnvelope(message)]

\* executeGcpCommand / executeAzureCommand up to the await of execAsync
Execute(c, command) ==
  LET validation == validate(c.provider, command)
      checked == [c EXCEPT !.command = command, !.validation = Answer(validation)]
  IN  IF ~validation.valid
        THEN Throw(checked, ValidationError(validation).message)
        ELSE [checked EXCEPT !.pc = "running",
                             !.fullCommand = fullCommandOf(c.provider, command, c.args),
                             !.spawns = c.spawns + 1,
                             !.options = execOptions,
                             !.child = [NoChild EXCEPT !.status = "running"]]

\* if (!instance || !zone)
InstanceOrZoneMissing(p) == p.instance = <<>> \/ p.zone = <<>>

handleRunCommand(c) ==
  IF CommandMissing(c.args) THEN Throw(c, "Command is required")
                            ELSE Execute(c, c.args.command)

handleListGceInstances(c) == Execute(c, listInstancesCommand(c.params))

handleStartGceInstance(c) ==
  IF InstanceOrZoneMissing(c.params)
    THEN Throw(c, "Instance name and zone are required")
    ELSE Execute(c, startInstanceCommand(c.params))

handleStopGceInstance(c) ==
  IF InstanceOrZoneMissing(c.params)
    THEN Throw(c, "Instance name and zone are required")
    ELSE Execute(c, stopInstanceCommand(c.params))

handleRestartGceInstance(c) ==
  IF InstanceOrZoneMissing(c.params)
    THEN Throw(c, "Instance name and zone are required")
    ELSE Execute(c, restartInstanceCommand(c.params))

handleGetGceInstanceInfo(c) ==
  IF InstanceOrZoneMissing(c.params)
    THEN Throw(c, "Instance name and zone are required")
    ELSE Execute(c, instanceInfoCommand(c.params))

handleListStorageAccounts(c) == Execute(c, storageAccountsCommand(c.params))

\* results.map((r, i) => `Operation ${i + 1}:\n${r.stdout}\n${r.stderr}`)
\*        .join('\n\n')
RECURSIVE combinedOutput(_, _)
combinedOutput(results, k) ==
  IF k > Len(results) THEN ""
  ELSE (IF k > 1 THEN "\n\n" ELSE "")
         \o "Operation " \o ToString(k) \o ":\n"
         \o results[k].stdout \o "\n" \o results[k].stderr
         \o combinedOutput(results, k + 1)

\* hasError taken from the last result only
modifyReturn_LastOnly(c) ==
  IF Len(c.steps) = 0
    THEN Throw(c, "Either machineType or labels must be provided")
    ELSE [c EXCEPT !.pc = "done",
                   !.response =
                     [has |-> TRUE, text |-> combinedOutput(c.steps, 1),
                      isError |-> NotStrictlyZero(c.steps[Len(c.steps)].exitCode)]]

\* handleModifyGceInstance from if (results.length === 0) on
modifyReturn(c) ==
  IF Len(c.steps) = 0
    THEN Throw(c, "Either machineType or labels must be provided")
    ELSE [c EXCEPT !.pc = "done",
                   !.response =
                     [has |-> TRUE, text |-> combinedOutput(c.steps, 1),
                      isError |-> \E k \in 1..Len(c.steps) :
                                    NotStrictlyZero(c.steps[k].exitCode)]]

\* the labels command is skipped after a failed machine-type command
modifyLabels_ShortCircuit(c) ==
  IF c.params.hasLabels
       /\ \A k \in 1..Len(c.steps) : ~NotStrictlyZero(c.steps[k].exitCode)
    THEN Execute([c EXCEPT !.step = "labels"], labelCommand(c.params))
    ELSE modifyReturn(c)

\* handleModifyGceInstance from if (labels) on
modifyLabels(c) ==
  IF c.params.hasLabels
    THEN Execute([c EXCEPT !.step = "labels"], labelCommand(c.params))
    ELSE modifyReturn(c)

handleModifyGceInstance(c) ==
  IF InstanceOrZoneMissing(c.params)
    THEN Throw(c, "Instance name and zone are required")
    ELSE IF c.params.machineType # <<>>
           THEN Execute([c EXCEPT !.step = "machineType"], machineTypeCommand(c.params))
           ELSE modifyLabels(c)

\* handleListGceInstances / handleGetGceInstanceInfo after the await: the
\* try around JSON.parse and its catch
parsedEnvelope(result, fallback) ==
  IF result.stdout = "" \/ JsonParses(result.stdout)
    THEN [has |-> TRUE,
          text |-> IF result.stdout = "" THEN fallback.empty
                                         ELSE JsonReformat(result.stdout),
          isError |-> NotStrictlyZero(result.exitCode)]
    ELSE [has |-> TRUE,
          text |-> OrStr(result.stdout, OrStr(result.stderr, fallback.message)),
          isError |-> TRUE]

\* handleListStorageAccounts after the await
storageAccountsReturn(c, result) ==
  IF NotStrictlyZero(result.exitCode)
    THEN Throw(c, "Failed to list storage accounts: " \o result.stderr)
    ELSE IF ~JsonParses(result.stdout)
           THEN Throw(c, "Failed to parse storage accounts output")
           ELSE [c EXCEPT !.pc = "done",
                          !.response = [has |-> TRUE,
                                        text |-> JsonReformat(result.stdout),
                                        isError |-> FALSE]]

RunTools == {"gcp_run_gcloud_command", "azure_run_az_command"}
LifecycleTools ==
  {"gcp_start_gce_instance", "gcp_stop_gce_instance", "gcp_restart_gce_instance"}

\* the handler of call c after the await of the executor gave result
afterExecute(c, result) ==
  CASE c.name \in RunTools \cup LifecycleTools ->
         [c EXCEPT !.pc = "done", !.response = ResultEnvelope(result)]
    [] c.name = "gcp_list_gce_instances" ->
         [c EXCEPT !.pc = "done",
                   !.response = parsedEnvelope(result,
                      [empty |-> "[]", message |-> "Failed to parse instance list"])]
    [] c.name = "gcp_get_gce_instance_info" ->
         [c EXCEPT !.pc = "done",
                   !.response = parsedEnvelope(result,
                      [empty |-> "{}", message |-> "Failed to parse instance info"])]
    [] c.name = "azure_list_storage_accounts" -> storageAccountsReturn(c, result)
    [] c.name = "gcp_modify_gce_instance" ->
         LET pushed == [c EXCEPT !.steps = Append(@, result)]
         IN  IF c.step = "machineType" THEN modifyLabels(pushed)
                                       ELSE modifyReturn(pushed)

(***************************************************************************)
(* The storage handlers up to the await of the SDK request.                *)
(***************************************************************************)
DEFAULT_MAX_RESULTS == 100

\* (args.maxResults as number) || 100
maxResultsOf(p) ==
  IF p.hasMaxResults /\ p.maxResults # 0 THEN p.maxResults ELSE DEFAULT_MAX_RESULTS

GcsNotInitialized ==
  "GCS client not initialized. Ensure Google Cloud credentials are configured."

\* the handler awaits a request of an SDK client; made clients were
\* constructed during the dispatch
Request(c, made) ==
  [c EXCEPT !.pc = "sdk",
            !.sdk = [NoSdk EXCEPT !.clients = made, !.requests = 1,
                                  !.status = "pending"]]

\* projectId ? new Storage({ projectId }) : (this.storage || new Storage())
handleListBuckets(c) ==
  Request(c, IF Supplied(c.args) \/ ~storage THEN 1 ELSE 0)

handleListObjects(c) ==
  IF ~storage THEN Throw(c, GcsNotInitialized)
  ELSE IF c.params.bucketName = "" THEN Throw(c, "Bucket name is required")
  ELSE Request(c, 0)

handleReadObjectContent(c) ==
  IF ~storage THEN Throw(c, GcsNotInitialized)
  ELSE IF c.params.bucketName = "" \/ c.params.objectName = ""
         THEN Throw(c, "Bucket name and object name are required")
  ELSE Request(c, 0)

handleGetObjectMetadata(c) ==
  IF ~storage THEN Throw(c, GcsNotInitialized)
  ELSE IF c.params.bucketName = "" \/ c.params.objectName = ""
         THEN Throw(c, "Bucket name and object name are required")
  ELSE Request(c, 0)

\* the Azure handlers make their client with getBlobServiceClient
handleListContainers(c) ==
  IF c.params.accountName = "" THEN Throw(c, "Account name is required")
  ELSE Request(c, 1)

\* the client is made before the arguments are checked
handleListBlobs_ClientFirst(c) ==
  IF c.params.accountName = "" \/ c.params.containerName = ""
    THEN Throw([c EXCEPT !.sdk.clients = 1],
               "Account name and container name are required")
    ELSE Request(c, 1)

handleListBlobs(c) ==
  IF c.params.accountName = "" \/ c.params.containerName = ""
    THEN Throw(c, "Account name and container name are required")
    ELSE Request(c, 1)

BlobNamesMissing(p) ==
  p.accountName = "" \/ p.containerName = "" \/ p.blobName = ""

handleReadBlobContent(c) ==
  IF BlobNamesMissing(c.params)
    THEN Throw(c, "Account name, container name, and blob name are required")
    ELSE Request(c, 1)

handleGetBlobMetadata(c) ==
  IF BlobNamesMissing(c.params)
    THEN Throw(c, "Account name, container name, and blob name are required")
    ELSE Request(c, 1)

(***************************************************************************)
(* handleTool: the switch on the name inside try, and its catch (Throw).   *)
(***************************************************************************)
gcpHandleTool(c) ==
  CASE c.name = "gcp_run_gcloud_command" -> handleRunCommand(c)
    [] c.name = "gcp_list_buckets" -> handleListBuckets(c)
    [] c.name = "gcp_list_objects" -> handleListObjects(c)
    [] c.name = "gcp_read_object_content" -> handleReadObjectContent(c)
    [] c.name = "gcp_get_object_metadata" -> handleGetObjectMetadata(c)
    [] c.name = "gcp_list_gce_instances" -> handleListGceInstances(c)
    [] c.name = "gcp_start_gce_instance" -> handleStartGceInstance(c)
    [] c.name = "gcp_stop_gce_instance" -> handleStopGceInstance(c)
    [] c.name = "gcp_restart_gce_instance" -> handleRestartGceInstance(c)
    [] c.name = "gcp_get_gce_instance_info" -> handleGetGceInstanceInfo(c)
    [] c.name = "gcp_modify_gce_instance" -> handleModifyGceInstance(c)
    [] OTHER -> Throw(c, "Unknown GCP tool: " \o c.name)

\* handleTool without its default case
azureHandleTool_NoDefault(c) ==
  IF c.name = "azure_run_az_command" THEN handleRunCommand(c)
                                     ELSE handleListStorageAccounts(c)

azureHandleTool(c) ==
  CASE c.name = "azure_run_az_command" -> handleRunCommand(c)
    [] c.name = "azure_list_storage_accounts" -> handleListStorageAccounts(c)
    [] c.name = "azure_list_containers" -> handleListContainers(c)
    [] c.name = "azure_list_blobs" -> handleListBlobs(c)
    [] c.name = "azure_read_blob_content" -> handleReadBlobContent(c)
    [] c.name = "azure_get_blob_metadata" -> handleGetBlobMetadata(c)
    [] OTHER -> Throw(c, "Unknown Azure tool: " \o c.name)

handleTool(c) ==
  IF c.provider = "gcp" THEN gcpHandleTool(c) ELSE azureHandleTool(c)

(***************************************************************************)
(* The storage handlers after the await: the SDK request succeeded on a    *)
(* backing collection of size items (the items are 1..size in the order of *)
(* the enumeration), or failed with a message.                             *)
(***************************************************************************)
Min(a, b) == IF a <= b THEN a ELSE b

FirstItems(n) == [k \in 1..n |-> k]

RECURSIVE JsonItems(_, _)
JsonItems(entries, k) ==
  IF k > Len(entries) THEN ""
  ELSE (IF k > 1 THEN ",\n  " ELSE "\n  ") \o ToString(entries[k])
         \o JsonItems(entries, k + 1)

\* JSON.stringify(list, null, 2)
JsonStringifyList(entries) ==
  IF entries = <<>> THEN "[]" ELSE "[" \o JsonItems(entries, 1) \o "\n]"

ListingTools ==
  {"gcp_list_buckets", "gcp_list_objects", "azure_list_containers", "azure_list_blobs"}

ObjectContent == "content"
MetadataJson == "{\n  \"name\": \"o\"\n}"

Listed(c, entries, drawn, size) ==
  [c EXCEPT !.pc = "done",
            !.sdk = [c.sdk EXCEPT !.status = "resolved", !.drawn = drawn, !.size = size],
            !.hasEntries = TRUE,
            !.entries = entries,
            !.response = [has |-> TRUE, text |-> JsonStringifyList(entries),
                          isError |-> FALSE]]

\* the loop without its break
listBlobsReturn_Uncapped(c, size) == Listed(c, FirstItems(size), size, size)

\* for await (const blob of ...) { if (count >= maxResults) break; ... }:
\* the item that makes the loop break has been drawn
listBlobsReturn(c, size) ==
  Listed(c, FirstItems(Min(size, maxResultsOf(c.params))),
         Min(size, maxResultsOf(c.params) + 1), size)

\* bucket.getFiles({ prefix, maxResults }): the client returns at most
\* maxResults files
listObjectsReturn(c, size) ==
  Listed(c, FirstItems(Min(size, maxResultsOf(c.params))),
         Min(size, maxResultsOf(c.params)), size)

afterRequest(c, size) ==
  CASE c.name = "azure_list_blobs" -> listBlobsReturn(c, size)
    [] c.name = "gcp_list_objects" -> listObjectsReturn(c, size)
    [] c.name \in {"gcp_list_buckets", "azure_list_containers"} ->
         Listed(c, FirstItems(size), size, size)
    [] c.name \in {"gcp_read_object_content", "azure_read_blob_content"} ->
         [c EXCEPT !.pc = "done", !.sdk.status = "resolved",
                   !.response = [has |-> TRUE, text |-> ObjectContent, isError |-> FALSE]]
    [] OTHER ->
         [c EXCEPT !.pc = "done", !.sdk.status = "resolved",
                   !.response = [has |-> TRUE, text |-> MetadataJson, isError |-> FALSE]]

\* one prefix for every operation
FailurePrefix_Generic(name) == "Operation failed"

\* the prefix that the catch of each storage handler puts before error.message
FailurePrefix(name) ==
  CASE name = "gcp_list_buckets" -> "Failed to list buckets"
    [] name = "gcp_list_objects" -> "Failed to list objects"
    [] name = "gcp_read_object_content" -> "Failed to read object"
    [] name = "gcp_get_object_metadata" -> "Failed to get object metadata"
    [] name = "azure_list_containers" -> "Failed to list containers"
    [] name = "azure_list_blobs" -> "Failed to list blobs"
    [] name = "azure_read_blob_content" -> "Failed to read blob"
    [] OTHER -> "Failed to get blob metadata"

afterRequestFailed(c, message) ==
  Throw([c EXCEPT !.sdk = [c.sdk EXCEPT !.status = "rejected", !.message = message]],
        FailurePrefix(c.name) \o ": " \o message)

(***************************************************************************)
(* The front-ends: the CallTool handler of the stdio server, POST          *)
(* /tools/:toolName and POST /mcp/call.                                    *)
(***************************************************************************)

\* the front-ends test another prefix
GCP_PREFIX_Dash == <<"g","c","p","-">>

GCP_PREFIX == <<"g","c","p","_">>
AZURE_PREFIX == <<"a","z","u","r","e","_">>

Frontends == {"stdio", "http_tools", "http_mcp"}

\* the front-end relays the envelope that handleTool returned
Finish(c) ==
  IF c.pc = "done" /\ c.frontend # ""
    THEN [c EXCEPT !.reply = [NoReply EXCEPT !.sent = TRUE,
                                             !.status = IF c.frontend = "stdio" THEN 0 ELSE 200,
                                             !.hasEnvelope = TRUE,
                                             !.envelope = c.response]]
    ELSE c

\* the else branch of the routing: stdio throws, the HTTP routes answer 400
unknownTool(c) ==
  [c EXCEPT !.pc = "done",
            !.reply = [NoReply EXCEPT !.sent = TRUE,
                                      !.raised = (c.frontend = "stdio"),
                                      !.status = IF c.frontend = "stdio" THEN 0 ELSE 400,
                                      !.error = "Unknown tool: " \o c.name]]

\* if (!name) of POST /mcp/call
nameRequired(c) ==
  [c EXCEPT !.pc = "done",
            !.reply = [NoReply EXCEPT !.sent = TRUE, !.status = 400,
                                      !.error = "Tool name is required"]]

route(frontend, toolName, args, params) ==
  LET c == [IdleCall EXCEPT !.frontend = frontend, !.toolName = toolName,
                            !.name = Str(toolName), !.args = args,
                            !.params = params]
  IN  IF frontend = "http_mcp" /\ toolName = <<>> THEN nameRequired(c)
      ELSE IF startsWith(toolName, GCP_PREFIX)
             THEN Finish(gcpHandleTool([c EXCEPT !.provider = "gcp"]))
      ELSE IF startsWith(toolName, AZURE_PREFIX)
             THEN Finish(azureHandleTool([c EXCEPT !.provider = "azure"]))
      ELSE unknownTool(c)

\* every front-end reads the key arguments only
argumentsOf_ArgumentsOnly(frontend, request) ==
  IF request.hasArguments
    THEN [args |-> request.args, params |-> request.params]
    ELSE [args |-> NoArgs, params |-> NoParams]

\* the arguments that a front-end passes on: args || {} of the CallTool
\* handler and of POST /mcp/call, req.body.arguments || req.body || {} of
\* POST /tools/:toolName
argumentsOf(frontend, request) ==
  IF request.hasArguments \/ frontend = "http_tools"
    THEN [args |-> request.args, params |-> request.params]
    ELSE [args |-> NoArgs, params |-> NoParams]

receive(frontend, toolName, request) ==
  LET passed == argumentsOf(frontend, request)
  IN  [route(frontend, toolName, passed.args, passed.params)
         EXCEPT !.request = request]

(***************************************************************************)
(* Inputs of the dispatch specification.                                   *)
(***************************************************************************)
SP == <<" ">>
RunCommands ==
  { <<>>,
    SP \o SP,
    AuthList,
    ComputeInstancesList,
    SP \o <<"A","U","T","H">> \o SP \o <<"l","i","s","t">>,
    <<"l","o","g","i","n">>,
    <<"i","n","i","t">>,
    <<"b","e","t","a"," ","x">>,
    <<"a","l","p","h","a">>,
    <<"c","o","n","f","i","g"," ","l","i","s","t">>,
    <<"A","c","c","o","u","n","t"," ","s","h","o","w">>,
    <<"x"," ","-","-","f","o","r","m","a","t","=","y"," ","E","V","A","L">>,
    SP \o <<"V","m"," ","L","i","s","t">> \o SP }

ScopeIds == {"", "p1"}

ArgsSet ==
  { [hasCommand |-> hc, command |-> c, hasScope |-> hs, scope |-> sc] :
      hc \in BOOLEAN, c \in RunCommands, hs \in BOOLEAN, sc \in ScopeIds }

\* an absent argument has no value
Arguments ==
  { a \in ArgsSet : /\ (~a.hasCommand => a.command = <<>>)
                    /\ (~a.hasScope => a.scope = "") }

Init ==
  /\ calls = [i \in CallIds |-> IdleCall]
  /\ input = <<>>
  /\ outcome = [gcp |-> NoOutcome, azure |-> NoOutcome]
  /\ storage = TRUE

(***************************************************************************)
(* handleTool(name, args) up to its first await: the handler checks its    *)
(* arguments, the executor validates, builds the invocation and spawns the *)
(* child; a throw is caught by handleTool and becomes the envelope.        *)
(***************************************************************************)
CallTool(i, name, args) ==
  /\ calls[i].pc = "idle"
  /\ calls' = [calls EXCEPT ![i] =
       handleTool([IdleCall EXCEPT !.name = name, !.args = args,
                                   !.provider = ProviderOf(name)])]
  /\ UNCHANGED <<input, outcome, storage>>

\* the child writes to its stdout or stderr; exec buffers the output
ChildWrite(i, stream) ==
  /\ calls[i].pc = "running"
  /\ \/ /\ stream = "stdout"
        /\ calls[i].child.stdout = ""
        /\ calls' = [calls EXCEPT ![i].child.stdout = StdoutData]
     \/ /\ stream = "stderr"
        /\ calls[i].child.stderr = ""
        /\ calls' = [calls EXCEPT ![i].child.stderr = StderrData]
  /\ UNCHANGED <<input, outcome, storage>>

\* the await settles: the rest of the executor and of the handler runs
Settle(i, status, hasCode, code, error) ==
  LET c == calls[i]
      result == IF error.has THEN CaughtResult(error)
                             ELSE ResolvedResult(c.child.stdout, c.child.stderr)
      settled == [c EXCEPT !.child = [c.child EXCEPT !.status = status,
                                                     !.hasCode = hasCode, !.code = code],
                           !.error = error,
                           !.result = result]
  IN  calls' = [calls EXCEPT ![i] = Finish(afterExecute(settled, result))]

\* a child settles only when no call before it is running
ExecExit_Serial(i, code) ==
  /\ calls[i].pc = "running"
  /\ \A j \in 1..(i - 1) : calls[j].pc # "running"
  /\ Settle(i, "exited", TRUE, code,
            IF code = 0 THEN NoError
            ELSE ExitError(calls[i].fullCommand, code,
                           calls[i].child.stdout, calls[i].child.stderr))
  /\ UNCHANGED <<input, outcome, storage>>

\* the child exits by itself with an exit status
ExecExit(i, code) ==
  /\ calls[i].pc = "running"
  /\ Settle(i, "exited", TRUE, code,
            IF code = 0 THEN NoError
            ELSE ExitError(calls[i].fullCommand, code,
                           calls[i].child.stdout, calls[i].child.stderr))
  /\ UNCHANGED <<input, outcome, storage>>

\* the child is still running when options.timeout expires (0 = no timer)
ExecTimeout(i) ==
  /\ calls[i].pc = "running"
  /\ calls[i].options.timeout > 0
  /\ Settle(i, "timeout", FALSE, 0,
            TimeoutError(calls[i].fullCommand,
                         calls[i].child.stdout, calls[i].child.stderr))
  /\ UNCHANGED <<input, outcome, storage>>

\* the child writes more than options.maxBuffer to a stream
ExecMaxBuffer(i, stream) ==
  /\ calls[i].pc = "running"
  /\ Settle(i, "maxbuffer", FALSE, 0,
            MaxBufferError(stream,
              IF stream = "stdout" THEN StdoutData ELSE calls[i].child.stdout,
              IF stream = "stderr" THEN StderrData ELSE calls[i].child.stderr))
  /\ UNCHANGED <<input, outcome, storage>>

\* the shell cannot be launched
ExecSpawnError(i) ==
  /\ calls[i].pc = "running"
  /\ calls[i].child.stdout = "" /\ calls[i].child.stderr = ""
  /\ Settle(i, "spawnerror", FALSE, 0, SpawnError)
  /\ UNCHANGED <<input, outcome, storage>>

\* the front-end has sent the envelope; the call is over
Respond(i) ==
  /\ calls[i].pc = "done"
  /\ calls' = [calls EXCEPT ![i] = IdleCall]
  /\ UNCHANGED <<input, outcome, storage>>

Streams == {"stdout", "stderr"}

\* every step of the server, the arguments of a dispatch being drawn from A
NextOver(A) ==
  \E i \in CallIds :
    \/ \E name \in ToolNames, args \in A : CallTool(i, name, args)
    \/ \E stream \in Streams : ChildWrite(i, stream)
    \/ \E code \in ExitCodes : ExecExit(i, code)
    \/ ExecTimeout(i)
    \/ \E stream \in Streams : ExecMaxBuffer(i, stream)
    \/ ExecSpawnError(i)
    \/ Respond(i)

Next == NextOver(Arguments)

Spec == Init /\ [][Next]_vars

(***************************************************************************)
(* The specification of the liveness properties.  The runtime runs every   *)
(* timer that is due: the timeout of a running child is weakly fair.  The  *)
(* arguments are a permitted and a rejected command, with and without a    *)
(* scope id.                                                               *)
(***************************************************************************)
LiveArguments ==
  { a \in Arguments : /\ a.hasCommand
                      /\ a.command \in {ComputeInstancesList, AuthList}
                      /\ (a.hasScope => a.scope # "") }

LiveNext == NextOver(LiveArguments)

LiveSpec ==
  Init /\ [][LiveNext]_vars /\ \A i \in CallIds : WF_vars(ExecTimeout(i))

(***************************************************************************)
(* The specification of the router: one call at a time, over every tool of *)
(* both providers and names that are no tool, through the three            *)
(* front-ends, with the shared GCS client constructed or not.              *)
(***************************************************************************)
\* the names of the tools, as the texts that the front-ends test
GcpToolNames ==
  { <<"g","c","p","_","r","u","n","_","g","c","l","o","u","d","_","c","o","m","m","a","n","d">>,
    <<"g","c","p","_","l","i","s","t","_","b","u","c","k","e","t","s">>,
    <<"g","c","p","_","l","i","s","t","_","o","b","j","e","c","t","s">>,
    <<"g","c","p","_","r","e","a","d","_","o","b","j","e","c","t","_","c","o","n","t","e","n","t">>,
    <<"g","c","p","_","g","e","t","_","o","b","j","e","c","t","_","m","e","t","a","d","a","t","a">>,
    <<"g","c","p","_","l","i","s","t","_","g","c","e","_","i","n","s","t","a","n","c","e","s">>,
    <<"g","c","p","_","s","t","a","r","t","_","g","c","e","_","i","n","s","t","a","n","c","e">>,
    <<"g","c","p","_","s","t","o","p","_","g","c","e","_","i","n","s","t","a","n","c","e">>,
    <<"g","c","p","_","r","e","s","t","a","r","t","_","g","c","e","_","i","n","s","t","a","n","c","e">>,
    <<"g","c","p","_","g","e","t","_","g","c","e","_","i","n","s","t","a","n","c","e","_","i","n","f","o">>,
    <<"g","c","p","_","m","o","d","i","f","y","_","g","c","e","_","i","n","s","t","a","n","c","e">> }

AzureToolNames ==
  { <<"a","z","u","r","e","_","r","u","n","_","a","z","_","c","o","m","m","a","n","d">>,
    <<"a","z","u","r","e","_","l","i","s","t","_","s","t","o","r","a","g","e","_","a","c","c","o","u","n","t","s">>,
    <<"a","z","u","r","e","_","l","i","s","t","_","c","o","n","t","a","i","n","e","r","s">>,
    <<"a","z","u","r","e","_","l","i","s","t","_","b","l","o","b","s">>,
    <<"a","z","u","r","e","_","r","e","a","d","_","b","l","o","b","_","c","o","n","t","e","n","t">>,
    <<"a","z","u","r","e","_","g","e","t","_","b","l","o","b","_","m","e","t","a","d","a","t","a">> }

\* names that are no tool: with a recognised prefix, with none, in another
\* case, and the empty name
OtherNames ==
  { <<"g","c","p","_","b","o","g","u","s">>,
    <<"a","z","u","r","e","_","b","o","g","u","s">>,
    <<"a","w","s","_","l","i","s","t">>,
    <<"G","C","P","_","l","i","s","t","_","b","u","c","k","e","t","s">>,
    <<"g","c","p">>,
    <<>> }

\* the names of the tools that listTools returns, in its order
gcpListTools ==
  << <<"g","c","p","_","r","u","n","_","g","c","l","o","u","d","_","c","o","m","m","a","n","d">>,
     <<"g","c","p","_","l","i","s","t","_","b","u","c","k","e","t","s">>,
     <<"g","c","p","_","l","i","s","t","_","o","b","j","e","c","t","s">>,
     <<"g","c","p","_","r","e","a","d","_","o","b","j","e","c","t","_","c","o","n","t","e","n","t">>,
     <<"g","c","p","_","g","e","t","_","o","b","j","e","c","t","_","m","e","t","a","d","a","t","a">>,
     <<"g","c","p","_","l","i","s","t","_","g","c","e","_","i","n","s","t","a","n","c","e","s">>,
     <<"g","c","p","_","s","t","a","r","t","_","g","c","e","_","i","n","s","t","a","n","c","e">>,
     <<"g","c","p","_","s","t","o","p","_","g","c","e","_","i","n","s","t","a","n","c","e">>,
     <<"g","c","p","_","r","e","s","t","a","r","t","_","g","c","e","_","i","n","s","t","a","n","c","e">>,
     <<"g","c","p","_","g","e","t","_","g","c","e","_","i","n","s","t","a","n","c","e","_","i","n","f","o">>,
     <<"g","c","p","_","m","o","d","i","f","y","_","g","c","e","_","i","n","s","t","a","n","c","e">> >>

azureListTools ==
  << <<"a","z","u","r","e","_","r","u","n","_","a","z","_","c","o","m","m","a","n","d">>,
     <<"a","z","u","r","e","_","l","i","s","t","_","s","t","o","r","a","g","e","_","a","c","c","o","u","n","t","s">>,
     <<"a","z","u","r","e","_","l","i","s","t","_","c","o","n","t","a","i","n","e","r","s">>,
     <<"a","z","u","r","e","_","l","i","s","t","_","b","l","o","b","s">>,
     <<"a","z","u","r","e","_","r","e","a","d","_","b","l","o","b","_","c","o","n","t","e","n","t">>,
     <<"a","z","u","r","e","_","g","e","t","_","b","l","o","b","_","m","e","t","a","d","a","t","a">> >>

\* the ListTools handler: tools: [...gcpToolList, ...azureToolList]
listTools == gcpListTools \o azureListTools

RequestNames == GcpToolNames \cup AzureToolNames \cup OtherNames

CollectionSizes == {0, 1, 3, 101}
SdkMessages == {"Forbidden", "The specified container does not exist."}

RouterArguments ==
  { a \in Arguments : a.command \in {<<>>, ComputeInstancesList, AuthList} /\ ~a.hasScope }

\* the parameters that a request may carry for the tool of the name
ParamsFor(name) ==
  LET Instances == {<<>>, <<"v","m">>}
      EvalInstances == {<<"e","v","a","l","-","v","m">>}
      Zones == {<<>>, <<"z","1">>}
      Statuses == {<<>>, <<"R","U","N","N","I","N","G">>, <<"e","v","a","l">>}
      MachineTypes == {<<>>, <<"e","2">>}
      LabelSets == {<<>>, <<"k","=","v">>, <<"e","v","a","l","=","-","-","f","o","r","m","a","t">>}
      ResourceGroups == {<<>>, <<"r","g">>}
      Buckets == {"", "b"}
      Objects == {"", "o"}
      Accounts == {"", "acct"}
      Containers == {"", "c"}
      Blobs == {"", "blob"}
      MaxResultsValues == {0, 2}
  IN
  CASE name \in {"gcp_list_objects"} ->
         { [NoParams EXCEPT !.bucketName = b, !.hasMaxResults = h, !.maxResults = m] :
             b \in Buckets, h \in BOOLEAN, m \in MaxResultsValues }
    [] name \in {"gcp_read_object_content", "gcp_get_object_metadata"} ->
         { [NoParams EXCEPT !.bucketName = b, !.objectName = o] :
             b \in Buckets, o \in Objects }
    [] name = "gcp_list_gce_instances" ->
         { [NoParams EXCEPT !.zone = z, !.status = st] : z \in Zones, st \in Statuses }
    [] name \in {"gcp_start_gce_instance", "gcp_stop_gce_instance",
                 "gcp_restart_gce_instance"} ->
         { [NoParams EXCEPT !.instance = n, !.zone = z] : n \in Instances, z \in Zones }
    [] name = "gcp_get_gce_instance_info" ->
         { [NoParams EXCEPT !.instance = n, !.zone = z] :
             n \in Instances \cup EvalInstances, z \in Zones }
    [] name = "gcp_modify_gce_instance" ->
         { [NoParams EXCEPT !.instance = n, !.zone = z, !.machineType = mt,
                            !.hasLabels = hl, !.labels = l] :
             n \in Instances, z \in Zones, mt \in MachineTypes,
             hl \in BOOLEAN, l \in LabelSets }
    [] name = "azure_list_storage_accounts" ->
         { [NoParams EXCEPT !.resourceGroup = rg] : rg \in ResourceGroups }
    [] name = "azure_list_containers" ->
         { [NoParams EXCEPT !.accountName = a] : a \in Accounts }
    [] name = "azure_list_blobs" ->
         { [NoParams EXCEPT !.accountName = a, !.containerName = ct,
                            !.hasMaxResults = h, !.maxResults = m] :
             a \in Accounts, ct \in Containers, h \in BOOLEAN, m \in MaxResultsValues }
    [] name \in {"azure_read_blob_content", "azure_get_blob_metadata"} ->
         { [NoParams EXCEPT !.accountName = a, !.containerName = ct, !.blobName = bl] :
             a \in Accounts, ct \in Containers, bl \in Blobs }
    [] OTHER -> {NoParams}

\* an absent maxResults or labels has no value; labels may be the empty object
Params(name) ==
  { q \in ParamsFor(name) : /\ (~q.hasMaxResults => q.maxResults = 0)
                            /\ (~q.hasLabels => q.labels = <<>>) }

\* the command and the scope id are arguments of the run-command tools, and
\* the scope id (projectId) of gcp_list_buckets
ArgsFor(name) ==
  CASE name \in RunTools -> RouterArguments
    [] name = "gcp_list_buckets" ->
         { a \in Arguments : ~a.hasCommand /\ (a.hasScope => a.scope # "") }
    [] OTHER -> {NoArgs}

\* the requests for a name: the mapping under arguments, or as the body
Requests(name) ==
  { [hasArguments |-> h, args |-> a, params |-> q] :
      h \in BOOLEAN, a \in ArgsFor(name), q \in Params(name) }

RouterInit ==
  /\ calls = [i \in CallIds |-> IdleCall]
  /\ input = <<>>
  /\ outcome = [gcp |-> NoOutcome, azure |-> NoOutcome]
  /\ storage \in BOOLEAN

\* a front-end receives a request and runs the tool up to its first await
Dispatch(i, frontend, toolName, request) ==
  /\ calls[i].pc = "idle"
  /\ calls' = [calls EXCEPT ![i] = receive(frontend, toolName, request)]
  /\ UNCHANGED <<input, outcome, storage>>

\* the child writes a JSON document to its stdout
ChildWriteJson(i) ==
  /\ calls[i].pc = "running"
  /\ calls[i].child.stdout = ""
  /\ calls' = [calls EXCEPT ![i].child.stdout = StdoutJson]
  /\ UNCHANGED <<input, outcome, storage>>

\* the SDK request succeeds on a backing collection of size items
SdkResolve(i, size) ==
  /\ calls[i].pc = "sdk"
  /\ calls[i].name \in ListingTools \/ size = 0
  /\ calls' = [calls EXCEPT ![i] = Finish(afterRequest(calls[i], size))]
  /\ UNCHANGED <<input, outcome, storage>>

\* the SDK request fails
SdkReject(i, message) ==
  /\ calls[i].pc = "sdk"
  /\ calls' = [calls EXCEPT ![i] = Finish(afterRequestFailed(calls[i], message))]
  /\ UNCHANGED <<input, outcome, storage>>

RouterNext ==
  \/ \E frontend \in Frontends, toolName \in RequestNames :
       \E request \in Requests(Str(toolName)) :
         Dispatch(1, frontend, toolName, request)
  \/ \E stream \in Streams : ChildWrite(1, stream)
  \/ ChildWriteJson(1)
  \/ \E code \in ExitCodes : ExecExit(1, code)
  \/ ExecTimeout(1)
  \/ \E stream \in Streams : ExecMaxBuffer(1, stream)
  \/ ExecSpawnError(1)
  \/ \E size \in CollectionSizes : SdkResolve(1, size)
  \/ \E message \in SdkMessages : SdkReject(1, message)
  \/ Respond(1)

RouterSpec == RouterInit /\ [][RouterNext]_vars

(***************************************************************************)
(* The specification of concurrent dispatches: MaxInFlight calls are in    *)
(* flight at once over the stdio front-end, each of them a permitted or a  *)
(* rejected gcloud command or a listing of containers; the steps of the    *)
(* calls interleave in every order.                                        *)
(***************************************************************************)
InFlightIds == 1..MaxInFlight

ConcurrentNames ==
  { <<"g","c","p","_","r","u","n","_","g","c","l","o","u","d","_","c","o","m","m","a","n","d">>,
    <<"a","z","u","r","e","_","l","i","s","t","_","c","o","n","t","a","i","n","e","r","s">> }

ConcurrentRequests(name) ==
  { r \in Requests(name) :
      /\ r.hasArguments
      /\ name \in RunTools
           => r.args.hasCommand /\ r.args.command \in {ComputeInstancesList, AuthList}
      /\ name = "azure_list_containers" => r.params.accountName # "" }

ConcurrentInit ==
  /\ calls = [i \in InFlightIds |-> IdleCall]
  /\ input = <<>>
  /\ outcome = [gcp |-> NoOutcome, azure |-> NoOutcome]
  /\ storage = TRUE

ConcurrentNext ==
  \E i \in InFlightIds :
    \/ \E toolName \in ConcurrentNames :
         \E request \in ConcurrentRequests(Str(toolName)) :
           Dispatch(i, "stdio", toolName, request)
    \/ \E stream \in Streams : ChildWrite(i, stream)
    \/ \E code \in ExitCodes : ExecExit(i, code)
    \/ ExecTimeout(i)
    \/ \E stream \in Streams : ExecMaxBuffer(i, stream)
    \/ ExecSpawnError(i)
    \/ \E size \in CollectionSizes : SdkResolve(i, size)
    \/ \E message \in SdkMessages : SdkReject(i, message)
    \/ Respond(i)

ConcurrentSpec == ConcurrentInit /\ [][ConcurrentNext]_vars

(***************************************************************************)
(* The vocabulary of the properties, stated on the text of a command and   *)
(* independently of the validator's code.                                  *)
(***************************************************************************)
CasePairs ==
  { <<"A","a">>, <<"B","b">>, <<"C","c">>, <<"D","d">>, <<"E","e">>,
    <<"F","f">>, <<"G","g">>, <<"H","h">>, <<"I","i">>, <<"J","j">>,
    <<"K","k">>, <<"L","l">>, <<"M","m">>, <<"N","n">>, <<"O","o">>,
    <<"P","p">>, <<"Q","q">>, <<"R","r">>, <<"S","s">>, <<"T","t">>,
    <<"U","u">>, <<"V","v">>, <<"W","w">>, <<"X","x">>, <<"Y","y">>,
    <<"Z","z">> }

IsSpace(c) == c = " " \/ c = "\t" \/ c = "\n"

\* empty or whitespace-only
Blank(c) == \A k \in 1..Len(c) : IsSpace(c[k])

\* the text without its leading and trailing whitespace, in lower case
Normalized(c) ==
  IF Blank(c) THEN <<>>
  ELSE LET inner == { k \in 1..Len(c) : ~IsSpace(c[k]) }
           lo == CHOOSE k \in inner : \A j \in inner : k <= j
           hi == CHOOSE k \in inner : \A j \in inner : j <= k
       IN  [k \in 1..(hi - lo + 1) |->
              LET ch == c[lo + k - 1]
              IN  IF \E q \in CasePairs : q[1] = ch
                    THEN (CHOOSE q \in CasePairs : q[1] = ch)[2]
                    ELSE ch]

IsPrefix(p, t) == Len(p) <= Len(t) /\ \A k \in 1..Len(p) : t[k] = p[k]

Occurs(p, t) ==
  \E k \in 1..Len(t) :
    k + Len(p) - 1 <= Len(t) /\ \A j \in 1..Len(p) : t[k + j - 1] = p[j]

GcpDenylist ==
  { <<"a","u","t","h">>, <<"c","o","n","f","i","g">>, <<"i","n","i","t">>,
    <<"b","e","t","a">>, <<"a","l","p","h","a">> }

AzureDenylist ==
  { <<"l","o","g","i","n">>, <<"a","c","c","o","u","n","t">>,
    <<"c","o","n","f","i","g">> }

Denylisted(provider, c) ==
  \E d \in (IF provider = "gcp" THEN GcpDenylist ELSE AzureDenylist) :
    IsPrefix(d, Normalized(c))

FormatAndEval(c) ==
  /\ Occurs(<<"-","-","f","o","r","m","a","t">>, Normalized(c))
  /\ Occurs(<<"e","v","a","l">>, Normalized(c))

\* the executor has been called with the command of call i
ExecutorCalled(i) == calls[i].pc # "idle" /\ calls[i].validation.called

Spawned(i) == calls[i].spawns > 0 \/ calls[i].child.status # "none"

(***************************************************************************)
(* C1: for each provider, a command whose trimmed, lowercased text starts  *)
(* with an entry of the provider's denylist is answered valid = false with *)
(* a non-empty reason by the validator, and the executor called with it    *)
(* spawns no child process.                                                *)
(***************************************************************************)
C1_DenylistedNeverSpawns ==
  \A i \in CallIds :
    (ExecutorCalled(i) /\ Denylisted(calls[i].provider, calls[i].args.command))
      => /\ ~calls[i].validation.valid
         /\ calls[i].validation.hasReason
         /\ calls[i].validation.reason # ""
         /\ ~Spawned(i)

C1_Witness ==
  \E i \in CallIds :
    /\ calls[i].pc = "done"
    /\ calls[i].provider = "gcp"
    /\ calls[i].args.command = <<" ","A","U","T","H"," ","l","i","s","t">>
    /\ calls[i].validation.called
    /\ ~calls[i].validation.valid
    /\ calls[i].spawns = 0

(***************************************************************************)
(* C2: the validator rejects nothing beyond its rules: a command that is   *)
(* not blank, is not denylisted for the provider and (GCP) does not hold   *)
(* both '--format' and 'eval' is permitted, with no reason; 'compute       *)
(* instances list' is permitted for GCP and 'auth list' is not.            *)
(***************************************************************************)
C2_RejectsNothingBeyondRules ==
  /\ (/\ outcome.gcp.called
      /\ ~Blank(input) /\ ~Denylisted("gcp", input) /\ ~FormatAndEval(input))
       => (outcome.gcp.valid /\ ~outcome.gcp.hasReason)
  /\ (/\ outcome.azure.called
      /\ ~Blank(input) /\ ~Denylisted("azure", input))
       => (outcome.azure.valid /\ ~outcome.azure.hasReason)
  /\ (outcome.gcp.called /\ input = ComputeInstancesList) => outcome.gcp.valid
  /\ (outcome.gcp.called /\ input = AuthList) => ~outcome.gcp.valid

C2_Witness ==
  /\ input = <<"x">> \o <<"a","u","t","h">> \o <<"e","v","a","l">>
  /\ outcome.gcp.called /\ outcome.gcp.valid
  /\ outcome.azure.called /\ outcome.azure.valid

(***************************************************************************)
(* C3: for GCP a command whose trimmed, lowercased text holds both         *)
(* '--format' and 'eval', in any order and any letter case, is rejected;   *)
(* the Azure validator does not reject the same text by this rule.         *)
(***************************************************************************)
C3_FormatEvalGcpOnly ==
  /\ (outcome.gcp.called /\ FormatAndEval(input)) => ~outcome.gcp.valid
  /\ (outcome.azure.called /\ FormatAndEval(input))
       => /\ outcome.azure.valid \/ Denylisted("azure", input)
          /\ outcome.azure.reason # "Potentially dangerous format evaluation detected"

C3_Witness ==
  /\ input = <<"E","v","A","L">> \o <<" ">> \o <<"-","-","F","O","R","M","A","T">>
  /\ outcome.gcp.called /\ ~outcome.gcp.valid
  /\ outcome.gcp.reason = "Potentially dangerous format evaluation detected"
  /\ outcome.azure.called /\ outcome.azure.valid

(***************************************************************************)
(* C4 as stated: for both providers a blank command is rejected with the   *)
(* reason "empty command".                                                 *)
(***************************************************************************)
C4_ReasonEmptyCommandLowercase ==
  /\ (outcome.gcp.called /\ Blank(input))
       => (~outcome.gcp.valid /\ outcome.gcp.reason = "empty command")
  /\ (outcome.azure.called /\ Blank(input))
       => (~outcome.azure.valid /\ outcome.azure.reason = "empty command")

(***************************************************************************)
(* C4 as amended: for both providers a blank command is rejected with the  *)
(* reason "Empty command" (capital E).                                     *)
(***************************************************************************)
C4_BlankRejectedEmptyCommand ==
  /\ (outcome.gcp.called /\ Blank(input))
       => (~outcome.gcp.valid /\ outcome.gcp.reason = "Empty command")
  /\ (outcome.azure.called /\ Blank(input))
       => (~outcome.azure.valid /\ outcome.azure.reason = "Empty command")

C4_Witness ==
  /\ input = <<" ", "\t">>
  /\ outcome.gcp.called /\ ~outcome.gcp.valid
  /\ outcome.azure.called /\ ~outcome.azure.valid

(***************************************************************************)
(* C5: for every permitted command the string handed to the child process  *)
(* is "gcloud " + rawCommand (GCP) or "az " + rawCommand (Azure), followed *)
(* by " --project=" + scopeId (GCP) or " --subscription " + scopeId        *)
(* (Azure) exactly when a scope id (a non-empty string) is supplied;       *)
(* rawCommand is in it character for character.                            *)
(***************************************************************************)
C5_InvocationIsRawCommand ==
  \A i \in CallIds :
    Spawned(i) =>
      LET a == calls[i].args
          program == IF calls[i].provider = "gcp" THEN "gcloud " ELSE "az "
          flag == IF calls[i].provider = "gcp" THEN " --project=" ELSE " --subscription "
          suffix == IF a.hasScope /\ a.scope # "" THEN flag \o a.scope ELSE ""
      IN  calls[i].fullCommand = program \o Str(a.command) \o suffix

C5_Witness ==
  \E i \in CallIds :
    /\ calls[i].pc = "running"
    /\ calls[i].provider = "gcp"
    /\ calls[i].args.command = <<" ","V","m"," ","L","i","s","t"," ">>
    /\ calls[i].args.scope = "p1"
    /\ calls[i].fullCommand = "gcloud  Vm List  --project=p1"

(***************************************************************************)
(* C6: for every permitted command the executor does not throw, whatever   *)
(* the child does: when the child does not complete successfully the call  *)
(* returns a result with a non-zero exitCode and a non-empty stderr, and a *)
(* child that exits with status 1 or fails without a status gives          *)
(* exitCode 1.                                                             *)
(***************************************************************************)
ChildFailed(i) ==
  /\ calls[i].pc = "done"
  /\ calls[i].child.status # "none"
  /\ ~(calls[i].child.status = "exited" /\ calls[i].child.code = 0)

C6_FailureIsAResult ==
  \A i \in CallIds :
    /\ (calls[i].pc = "done" /\ Spawned(i))
         => (calls[i].result.has /\ ~calls[i].thrown.has)
    /\ ChildFailed(i)
         => /\ ~(calls[i].result.exitCode.t = "number" /\ calls[i].result.exitCode.n = 0)
            /\ calls[i].result.stderr # ""
    /\ (ChildFailed(i) /\ calls[i].child.status \in {"exited", "timeout"}
          /\ (calls[i].child.hasCode => calls[i].child.code = 1))
         => calls[i].result.exitCode = JsNum(1)

C6_Witness ==
  \E i \in CallIds :
    /\ calls[i].pc = "done"
    /\ calls[i].child.status = "exited" /\ calls[i].child.code = 1
    /\ calls[i].child.stderr = ""
    /\ calls[i].result.has
    /\ calls[i].result.exitCode = JsNum(1)
    /\ calls[i].result.stderr # ""

(***************************************************************************)
(* C7: every result of the executor has an integer exitCode, which is 0    *)
(* exactly when the child completed successfully; on failure it is the     *)
(* numeric exit status of the child, or 1 when the failure carries no exit *)
(* status (also when the error code is a non-numeric identifier).          *)
(***************************************************************************)
C7_ExitCodeIsInteger ==
  \A i \in CallIds :
    calls[i].result.has =>
      /\ calls[i].result.exitCode.t = "number"
      /\ (calls[i].result.exitCode.n = 0)
           <=> (calls[i].child.status = "exited" /\ calls[i].child.code = 0)
      /\ ChildFailed(i) =>
           calls[i].result.exitCode.n =
             (IF calls[i].child.hasCode THEN calls[i].child.code ELSE 1)

(***************************************************************************)
(* C8: when the child runs longer than the timeout, the result has a       *)
(* non-zero exitCode and a non-empty stderr whatever the child had written *)
(* to stdout, and that partial stdout is returned in stdout.               *)
(***************************************************************************)
C8_TimeoutIsAFailure ==
  \A i \in CallIds :
    (calls[i].pc = "done" /\ calls[i].child.status = "timeout") =>
      /\ calls[i].result.has
      /\ calls[i].result.exitCode.t = "number"
      /\ calls[i].result.exitCode.n # 0
      /\ calls[i].result.stderr # ""
      /\ calls[i].result.stdout = calls[i].child.stdout
      /\ calls[i].response.isError

C8_Witness ==
  \E i \in CallIds :
    /\ calls[i].pc = "done"
    /\ calls[i].child.status = "timeout"
    /\ calls[i].child.stdout = "data"
    /\ calls[i].child.stderr = ""
    /\ calls[i].result.stdout = "data"
    /\ calls[i].result.exitCode = JsNum(1)

(***************************************************************************)
(* C9: every executor call eventually returns: a child that does not       *)
(* finish by itself is terminated when the timeout expires, and the call   *)
(* completes with a result.                                                *)
(***************************************************************************)
C9_CallEventuallyReturns ==
  \A i \in CallIds : (calls[i].pc = "running") ~> (calls[i].pc = "done")

C9_Witness ==
  \E i \in CallIds :
    /\ calls[i].pc = "done"
    /\ calls[i].child.status = "timeout"
    /\ calls[i].error.killed
    /\ calls[i].result.has
    /\ calls[i].response.has

(***************************************************************************)
(* C10 as stated: the executor validates first; a rejected command makes   *)
(* it raise an error carrying the validator's reason, and a run-command    *)
(* tool given a command that the validator rejects answers isError true    *)
(* and "Error: " followed by that reason, with no process spawned.         *)
(***************************************************************************)
C10_RejectedAnswersReason ==
  \A i \in CallIds :
    LET c == calls[i]
        v == validate(c.provider, c.args.command)
    IN  (c.pc = "done" /\ c.args.hasCommand /\ ~v.valid)
          => /\ c.response.has /\ c.response.isError
             /\ c.response.text = "Error: " \o v.reason
             /\ ~Spawned(i)

(***************************************************************************)
(* C10 as amended: the same, for a rejected command that is not the empty  *)
(* string; the empty string is answered "Error: Command is required" by    *)
(* the handler, before the executor and the validator are called, also     *)
(* with isError true and no process spawned.                               *)
(***************************************************************************)
C10_RejectedNonEmptyAnswersReason ==
  \A i \in CallIds :
    LET c == calls[i]
        v == validate(c.provider, c.args.command)
    IN  /\ Spawned(i) => (c.validation.called /\ c.validation.valid)
        /\ (c.pc = "done" /\ c.args.hasCommand /\ c.args.command # <<>> /\ ~v.valid)
             => /\ c.validation.called /\ ~c.validation.valid
                /\ c.thrown.has /\ c.thrown.message = v.reason
                /\ c.response.has /\ c.response.isError
                /\ c.response.text = "Error: " \o v.reason
                /\ ~Spawned(i)
        /\ (c.pc = "done" /\ c.args.hasCommand /\ c.args.command = <<>>)
             => /\ ~c.validation.called
                /\ c.response.isError
                /\ c.response.text = "Error: Command is required"
                /\ ~Spawned(i)

C10_Witness ==
  \E i \in CallIds :
    /\ calls[i].pc = "done"
    /\ calls[i].name = "azure_run_az_command"
    /\ calls[i].args.command = <<"l","o","g","i","n">>
    /\ calls[i].response.isError
    /\ calls[i].response.text =
         "Error: Command blocked: login commands are not allowed for security reasons"
    /\ calls[i].spawns = 0

(***************************************************************************)
(* The vocabulary of the properties of the router.                         *)
(***************************************************************************)
\* the front-end of call i has answered the request
Replied(i) == calls[i].pc = "done" /\ calls[i].reply.sent

HasGcpPrefix(name) == IsPrefix(<<"g","c","p","_">>, name)
HasAzurePrefix(name) == IsPrefix(<<"a","z","u","r","e","_">>, name)

\* the answer of call i is the envelope { content, isError }
AnsweredEnvelope(i) == calls[i].reply.hasEnvelope /\ calls[i].response.has

\* the answer of call i is an envelope with isError true and this text, bare
\* or behind the "Error: " of the dispatch boundary
AnsweredError(i, text) ==
  /\ AnsweredEnvelope(i)
  /\ calls[i].response.isError
  /\ calls[i].response.text \in {text, "Error: " \o text}

(***************************************************************************)
(* C11: every dispatch, over any of the three front-ends, whose tool name  *)
(* starts with neither 'gcp_' nor 'azure_' is answered with an envelope    *)
(* with isError true whose text contains "Unknown tool: <name>".           *)
(***************************************************************************)
C11_UnknownPrefixAnswersEnvelope ==
  \A i \in CallIds :
    (/\ Replied(i)
     /\ ~HasGcpPrefix(calls[i].toolName)
     /\ ~HasAzurePrefix(calls[i].toolName))
      => AnsweredError(i, "Unknown tool: " \o calls[i].name)

(***************************************************************************)
(* C12: a tool name that has a recognised prefix but is not one of the     *)
(* tools of that provider is answered by handleTool with an envelope with  *)
(* isError true whose text names the tool, and no handler, process or SDK  *)
(* call is run.                                                            *)
(***************************************************************************)
PrefixedNoTool(name) ==
  \/ HasGcpPrefix(name) /\ name \notin GcpToolNames
  \/ HasAzurePrefix(name) /\ name \notin AzureToolNames

C12_UnknownSuffixAnswersEnvelope ==
  \A i \in CallIds :
    (calls[i].pc # "idle" /\ PrefixedNoTool(calls[i].toolName))
      => /\ calls[i].pc = "done"
         /\ AnsweredEnvelope(i)
         /\ calls[i].response.isError
         /\ calls[i].response.text =
              (IF HasGcpPrefix(calls[i].toolName)
                 THEN "Error: Unknown GCP tool: "
                 ELSE "Error: Unknown Azure tool: ") \o calls[i].name
         /\ ~calls[i].validation.called
         /\ calls[i].command = <<>>
         /\ calls[i].spawns = 0
         /\ calls[i].child = NoChild
         /\ calls[i].sdk = NoSdk

C12_Witness ==
  \E i \in CallIds :
    /\ Replied(i)
    /\ calls[i].toolName = <<"a","z","u","r","e","_","b","o","g","u","s">>
    /\ calls[i].response.text = "Error: Unknown Azure tool: azure_bogus"
    /\ calls[i].response.isError

(***************************************************************************)
(* C13: no dispatch lets an exception reach a front-end: for every tool    *)
(* name and arguments and every outcome of the handler (argument error,    *)
(* validation rejection, collaborator failure, parse failure, unknown      *)
(* tool), the dispatch returns the envelope, with isError true when the    *)
(* outcome is an error, instead of throwing.                               *)
(***************************************************************************)
C13_NoExceptionReachesFrontEnd ==
  \A i \in CallIds :
    Replied(i)
      => /\ ~calls[i].reply.raised
         /\ AnsweredEnvelope(i)
         /\ (calls[i].thrown.has => calls[i].response.isError)

(***************************************************************************)
(* The ways in which the operation of a call does not complete as          *)
(* requested, stated on the request and on what happened to it.            *)
(***************************************************************************)
\* the required arguments of the tool of call i are not all given (for
\* gcp_modify_gce_instance: neither machineType nor labels)
MissingRequired(i) ==
  LET n == calls[i].name
      p == calls[i].params
  IN  \/ /\ n \in {"gcp_run_gcloud_command", "azure_run_az_command"}
         /\ (~calls[i].args.hasCommand \/ calls[i].args.command = <<>>)
      \/ /\ n = "gcp_list_objects"
         /\ p.bucketName = ""
      \/ /\ n \in {"gcp_read_object_content", "gcp_get_object_metadata"}
         /\ (p.bucketName = "" \/ p.objectName = "")
      \/ /\ n \in {"gcp_start_gce_instance", "gcp_stop_gce_instance",
                   "gcp_restart_gce_instance", "gcp_get_gce_instance_info",
                   "gcp_modify_gce_instance"}
         /\ (p.instance = <<>> \/ p.zone = <<>>)
      \/ /\ n = "gcp_modify_gce_instance"
         /\ p.machineType = <<>> /\ ~p.hasLabels
      \/ /\ n = "azure_list_containers"
         /\ p.accountName = ""
      \/ /\ n = "azure_list_blobs"
         /\ (p.accountName = "" \/ p.containerName = "")
      \/ /\ n \in {"azure_read_blob_content", "azure_get_blob_metadata"}
         /\ (p.accountName = "" \/ p.containerName = "" \/ p.blobName = "")

ValidationRejected(i) == calls[i].validation.called /\ ~calls[i].validation.valid

\* a command that the call executed did not exit with status 0
SomeCommandFailed(i) ==
  \/ ChildFailed(i)
  \/ \E k \in 1..Len(calls[i].steps) : calls[i].steps[k].exitCode # JsNum(0)

\* the output of the command had to be parsed and is not a JSON text
ParseFailed(i) ==
  /\ calls[i].child.status = "exited"
  /\ \/ /\ calls[i].name \in {"gcp_list_gce_instances", "gcp_get_gce_instance_info"}
        /\ calls[i].child.stdout \notin {"", "[ ]"}
     \/ /\ calls[i].name = "azure_list_storage_accounts"
        /\ calls[i].child.stdout # "[ ]"

\* the SDK request failed, or the tool needs the shared GCS client and the
\* server has none
CollaboratorFailed(i) ==
  \/ calls[i].sdk.status = "rejected"
  \/ /\ ~storage
     /\ calls[i].name \in {"gcp_list_objects", "gcp_read_object_content",
                           "gcp_get_object_metadata"}

NotCompleted(i) ==
  \/ PrefixedNoTool(calls[i].toolName)
  \/ MissingRequired(i)
  \/ ValidationRejected(i)
  \/ SomeCommandFailed(i)
  \/ ParseFailed(i)
  \/ CollaboratorFailed(i)

(***************************************************************************)
(* C14: for every tool and every outcome, isError of the envelope is true  *)
(* exactly when the operation did not complete as requested (validation    *)
(* rejection, non-zero exit of any executed command, parse failure of the  *)
(* output of the command, missing required argument, unknown tool,         *)
(* collaborator failure), and is not true when the operation completed.    *)
(***************************************************************************)
C14_IsErrorIffNotCompleted ==
  \A i \in CallIds :
    (Replied(i) /\ AnsweredEnvelope(i))
      => (calls[i].response.isError <=> NotCompleted(i))

\* the first of the two commands of a modification failed, the second did
\* not
C14_Witness ==
  \E i \in CallIds :
    /\ Replied(i)
    /\ calls[i].name = "gcp_modify_gce_instance"
    /\ Len(calls[i].steps) = 2
    /\ calls[i].steps[1].exitCode = JsNum(1)
    /\ calls[i].steps[2].exitCode = JsNum(0)
    /\ calls[i].response.isError

(***************************************************************************)
(* The JSON text of the triple of a result, as JSON.stringify lays it out  *)
(* with an indentation of two.                                             *)
(***************************************************************************)
TripleJson(r) ==
  "{\n  \"stdout\": \"" \o r.stdout \o "\",\n  \"stderr\": \"" \o r.stderr
    \o "\",\n  \"exitCode\": "
    \o (IF r.exitCode.t = "number" THEN ToString(r.exitCode.n)
                                   ELSE "\"" \o r.exitCode.s \o "\"")
    \o "\n}"

\* the executor returned a result to the handler of call i, and the
\* envelope is the triple with isError = (exitCode !== 0)
AnswersTriple(i) ==
  (Replied(i) /\ calls[i].result.has)
    => /\ AnsweredEnvelope(i)
       /\ calls[i].response.text = TripleJson(calls[i].result)
       /\ calls[i].response.isError <=> (calls[i].result.exitCode # JsNum(0))

TripleTools ==
  {"gcp_run_gcloud_command", "azure_run_az_command", "gcp_start_gce_instance",
   "gcp_stop_gce_instance", "gcp_restart_gce_instance"}

ParsingTools ==
  {"gcp_list_gce_instances", "gcp_get_gce_instance_info",
   "azure_list_storage_accounts"}

(***************************************************************************)
(* C15 as stated: for every handler that wraps a single Executor call (run *)
(* command, start/stop/restart instance, list instances, instance info,    *)
(* list storage accounts), the text of the response is the JSON of the     *)
(* {stdout, stderr, exitCode} triple of the Executor and isError equals    *)
(* (exitCode !== 0).                                                       *)
(***************************************************************************)
C15_EveryWrapperAnswersTriple ==
  \A i \in CallIds :
    calls[i].name \in TripleTools \cup ParsingTools => AnswersTriple(i)

(***************************************************************************)
(* C15 amended: the run-command handlers and the start, stop and restart   *)
(* handlers answer the JSON of the triple with isError = (exitCode !== 0). *)
(***************************************************************************)
C15_RunAndLifecycleAnswerTriple ==
  \A i \in CallIds : calls[i].name \in TripleTools => AnswersTriple(i)

C15_Witness ==
  \E i \in CallIds :
    /\ Replied(i)
    /\ calls[i].name = "gcp_stop_gce_instance"
    /\ calls[i].result.has
    /\ calls[i].result.exitCode = JsNum(2)
    /\ calls[i].response.isError
    /\ calls[i].response.text =
         "{\n  \"stdout\": \"data\",\n  \"stderr\": \"warn\",\n  \"exitCode\": 2\n}"

ArgumentMessage(i) ==
  LET n == calls[i].name
      p == calls[i].params
  IN  CASE n \in {"gcp_run_gcloud_command", "azure_run_az_command"} ->
             "Command is required"
        [] n = "gcp_list_objects" -> "Bucket name is required"
        [] n \in {"gcp_read_object_content", "gcp_get_object_metadata"} ->
             "Bucket name and object name are required"
        [] n = "gcp_modify_gce_instance" /\ p.instance # <<>> /\ p.zone # <<>> ->
             "Either machineType or labels must be provided"
        [] n = "azure_list_containers" -> "Account name is required"
        [] n = "azure_list_blobs" -> "Account name and container name are required"
        [] n \in {"azure_read_blob_content", "azure_get_blob_metadata"} ->
             "Account name, container name, and blob name are required"
        [] OTHER -> "Instance name and zone are required"

(***************************************************************************)
(* C17: a dispatch of a tool with a missing required argument yields       *)
(* isError true with a message naming that argument, in every state of the *)
(* server; in particular gcp_list_objects with empty arguments answers     *)
(* with a message mentioning "Bucket name", also when the shared storage   *)
(* client failed to initialise.                                            *)
(***************************************************************************)
C17_MissingArgumentIsNamed ==
  \A i \in CallIds :
    (calls[i].pc # "idle" /\ MissingRequired(i))
      => /\ calls[i].response.has
         /\ calls[i].response.isError
         /\ calls[i].response.text = "Error: " \o ArgumentMessage(i)

\* call i answered a listing: its entries are in calls[i].entries
Listing(i) == Replied(i) /\ calls[i].hasEntries

\* the entries of call i are the first ones of the backing enumeration, in
\* its order
FirstInOrder(i) ==
  /\ Len(calls[i].entries) <= calls[i].sdk.size
  /\ \A k \in 1..Len(calls[i].entries) : calls[i].entries[k] = k

(***************************************************************************)
(* C18: for gcp_list_objects and azure_list_blobs, for every supplied      *)
(* numeric maxResults (including 0) and every backing collection, the      *)
(* response holds at most maxResults entries, and the entries are the      *)
(* first ones of the backing enumeration in the order of the enumeration.  *)
(***************************************************************************)
C18_AtMostMaxResultsInOrder ==
  \A i \in CallIds :
    (/\ Listing(i)
     /\ calls[i].name \in {"gcp_list_objects", "azure_list_blobs"}
     /\ calls[i].params.hasMaxResults)
      => /\ Len(calls[i].entries) <= calls[i].params.maxResults
         /\ FirstInOrder(i)

(***************************************************************************)
(* C19 as stated: every listing operation (buckets, objects, containers,   *)
(* blobs) applies a result cap that defaults to 100: when the caller gives *)
(* no maxResults, no listing response holds more than 100 entries however  *)
(* large the backing collection is.                                        *)
(***************************************************************************)
C19_EveryListingCapsAtHundred ==
  \A i \in CallIds :
    (Listing(i) /\ ~calls[i].params.hasMaxResults)
      => Len(calls[i].entries) <= 100

(***************************************************************************)
(* C19 amended: gcp_list_objects and azure_list_blobs apply a result cap   *)
(* that defaults to 100: with no maxResults their response holds the first *)
(* 100 entries of a larger collection, and the whole of a smaller one.     *)
(***************************************************************************)
C19_ObjectsAndBlobsCapAtHundred ==
  \A i \in CallIds :
    (/\ Listing(i)
     /\ calls[i].name \in {"gcp_list_objects", "azure_list_blobs"}
     /\ ~calls[i].params.hasMaxResults)
      => /\ Len(calls[i].entries) <= 100
         /\ Len(calls[i].entries) < 100 => Len(calls[i].entries) = calls[i].sdk.size
         /\ FirstInOrder(i)

C19_Witness ==
  \E i \in CallIds :
    /\ Listing(i)
    /\ calls[i].name = "azure_list_blobs"
    /\ ~calls[i].params.hasMaxResults
    /\ calls[i].sdk.size = 101
    /\ Len(calls[i].entries) = 100

(***************************************************************************)
(* C20: every spawned child process is run with timeout 30000 ms and       *)
(* output cap 10485760 bytes (10 MiB); the two values are the same for     *)
(* every call, and at every moment of the lifetime of a child they are the *)
(* options of its call.                                                    *)
(***************************************************************************)
C20_ChildLimitsAreFixed ==
  \A i \in CallIds :
    Spawned(i) => /\ calls[i].options.timeout = 30000
                  /\ calls[i].options.maxBuffer = 10485760

\* the second child of a modification is running
C20_Witness ==
  \E i \in CallIds :
    /\ calls[i].pc = "running"
    /\ calls[i].name = "gcp_modify_gce_instance"
    /\ calls[i].spawns = 2
    /\ calls[i].options = [timeout |-> 30000, maxBuffer |-> 10485760]

(***************************************************************************)
(* The argument mapping of the request of call i: the value of the key     *)
(* arguments; without that key, the body itself for POST /tools/:toolName  *)
(* and the empty mapping for the other two front-ends.                     *)
(***************************************************************************)
GivenArguments(i) ==
  LET r == calls[i].request
  IN  CASE r.hasArguments -> <<r.args, r.params>>
        [] ~r.hasArguments /\ calls[i].frontend = "http_tools" -> <<r.args, r.params>>
        [] OTHER -> <<NoArgs, NoParams>>

(***************************************************************************)
(* C21: for every tool name with a recognised prefix and every argument    *)
(* mapping, each of the three front-ends passes the name and the arguments *)
(* of the request to the Router and returns the envelope of the Router     *)
(* unchanged, so that the same invocation gives the same envelope over     *)
(* each front-end.                                                         *)
(***************************************************************************)
C21_FrontEndsRelayVerbatim ==
  \A i \in CallIds :
    (/\ calls[i].pc # "idle"
     /\ calls[i].frontend \in {"stdio", "http_tools", "http_mcp"}
     /\ HasGcpPrefix(calls[i].toolName) \/ HasAzurePrefix(calls[i].toolName))
      => /\ calls[i].name = Str(calls[i].toolName)
         /\ <<calls[i].args, calls[i].params>> = GivenArguments(i)
         /\ calls[i].provider = (IF HasGcpPrefix(calls[i].toolName) THEN "gcp" ELSE "azure")
         /\ Replied(i) => /\ ~calls[i].reply.raised
                          /\ calls[i].reply.error = ""
                          /\ calls[i].reply.hasEnvelope
                          /\ calls[i].response.has
                          /\ calls[i].reply.envelope = calls[i].response

\* POST /tools/azure_list_blobs with the arguments as the body
C21_Witness ==
  \E i \in CallIds :
    /\ Replied(i)
    /\ calls[i].frontend = "http_tools"
    /\ calls[i].name = "azure_list_blobs"
    /\ ~calls[i].request.hasArguments
    /\ calls[i].request.params.accountName = "acct"
    /\ calls[i].params.accountName = "acct"
    /\ calls[i].params.containerName = "c"
    /\ calls[i].reply.envelope = calls[i].response
    /\ ~calls[i].response.isError

(***************************************************************************)
(* What a call in flight owes to its own request and to its own child or   *)
(* SDK request only.                                                       *)
(***************************************************************************)
\* the validator answered call i by the text of the command of call i
OwnValidation(i) ==
  calls[i].validation.called
    => (calls[i].validation.valid
          <=> /\ ~Blank(calls[i].args.command)
              /\ ~Denylisted(calls[i].provider, calls[i].args.command)
              /\ ~(calls[i].provider = "gcp" /\ FormatAndEval(calls[i].args.command)))

\* the invocation of call i is built from the command of call i
OwnInvocation(i) ==
  Spawned(i)
    => calls[i].fullCommand =
         (IF calls[i].provider = "gcp" THEN "gcloud " ELSE "az ")
           \o Str(calls[i].args.command)

\* the envelope of call i is made of the outcome of the child or of the SDK
\* request of call i
OwnEnvelope(i) ==
  /\ (Replied(i) /\ calls[i].child.status = "exited")
       => calls[i].response.text =
            TripleJson([stdout |-> calls[i].child.stdout,
                        stderr |-> IF calls[i].child.code = 0
                                     THEN calls[i].child.stderr
                                     ELSE calls[i].result.stderr,
                        exitCode |-> JsNum(calls[i].child.code)])
  /\ (Replied(i) /\ calls[i].child.status \notin {"none", "exited"})
       => calls[i].response.isError
  /\ (Replied(i) /\ ValidationRejected(i))
       => /\ calls[i].response.isError
          /\ calls[i].child = NoChild
  /\ (Replied(i) /\ calls[i].sdk.status = "resolved")
       => /\ Len(calls[i].entries) = calls[i].sdk.size
          /\ ~calls[i].response.isError
  /\ (Replied(i) /\ calls[i].sdk.status = "rejected") => calls[i].response.isError

\* call i can take its next step whatever the other calls are doing
NeverWaits(i) ==
  /\ calls[i].pc = "idle"
       => ENABLED (\E toolName \in ConcurrentNames :
                     \E request \in ConcurrentRequests(Str(toolName)) :
                       Dispatch(i, "stdio", toolName, request))
  /\ calls[i].pc = "running" => ENABLED ExecExit(i, 0)
  /\ calls[i].pc = "sdk" => ENABLED SdkResolve(i, 0)
  /\ calls[i].pc = "done" => ENABLED Respond(i)

(***************************************************************************)
(* C22: concurrent dispatches are independent: under every interleaving of *)
(* the calls in flight, the validation outcome, the constructed invocation *)
(* and the returned envelope of each call depend only on the tool name and *)
(* the arguments of that call and on the outcome of its own child process  *)
(* or collaborator, and no call waits for another to finish.               *)
(***************************************************************************)
C22_ConcurrentCallsAreIndependent ==
  \A i \in InFlightIds :
    /\ OwnValidation(i)
    /\ OwnInvocation(i)
    /\ OwnEnvelope(i)
    /\ NeverWaits(i)

\* the second call has been answered while the first, with another command,
\* is still running
C22_Witness ==
  /\ calls[1].pc = "running"
  /\ calls[1].args.command = ComputeInstancesList
  /\ calls[2].pc = "done"
  /\ calls[2].reply.sent
  /\ calls[2].args.command = AuthList
  /\ calls[2].response.isError
  /\ calls[2].spawns = 0

(***************************************************************************)
(* C23: the validator is deterministic and insensitive to letter case and  *)
(* to surrounding whitespace: for every command c, each call of the        *)
(* validator of a provider on c answers what that validator answers on the *)
(* trimmed, lowercased c.                                                  *)
(***************************************************************************)
C23_ValidatorIgnoresCaseAndPadding ==
  /\ outcome.gcp.called
       => LET onNormalized == validateGcpCommand(Normalized(input))
          IN  /\ outcome.gcp.valid = onNormalized.valid
              /\ outcome.gcp.hasReason = onNormalized.hasReason
              /\ outcome.gcp.reason = onNormalized.reason
  /\ outcome.azure.called
       => LET onNormalized == validateAzureCommand(Normalized(input))
          IN  /\ outcome.azure.valid = onNormalized.valid
              /\ outcome.azure.hasReason = onNormalized.hasReason
              /\ outcome.azure.reason = onNormalized.reason

C23_Witness ==
  /\ input = <<"\t">> \o <<"A","U","T","H">> \o <<" ">>
  /\ Normalized(input) = <<"a","u","t","h">>
  /\ outcome.gcp.called /\ ~outcome.gcp.valid
  /\ outcome.gcp.reason = "Command blocked: auth commands are not allowed for security reasons"
  /\ outcome.azure.called /\ outcome.azure.valid

\* call i asks for both steps of a modification
ModifyBoth(i) ==
  /\ calls[i].pc # "idle"
  /\ calls[i].name = "gcp_modify_gce_instance"
  /\ calls[i].params.instance # <<>> /\ calls[i].params.zone # <<>>
  /\ calls[i].params.machineType # <<>>
  /\ calls[i].params.hasLabels

\* the labels of call i do not make the validator reject the labels command
LabelsPermitted(i) == ~FormatAndEval(calls[i].params.labels)

\* the commands of the two steps of call i
MachineTypeStep(i) ==
  "compute instances set-machine-type " \o Str(calls[i].params.instance)
    \o " --zone=" \o Str(calls[i].params.zone)
    \o " --machine-type=" \o Str(calls[i].params.machineType)

LabelsStep(i) ==
  "compute instances add-labels " \o Str(calls[i].params.instance)
    \o " --zone=" \o Str(calls[i].params.zone)
    \o " --labels=" \o Str(calls[i].params.labels)

\* the block of step k of the text of a modification
OperationBlock(k, r) == "Operation " \o ToString(k) \o ":\n" \o r.stdout \o "\n" \o r.stderr

C25_ExecutedStepIsReported ==
  \A i \in CallIds :
    (/\ Replied(i)
     /\ calls[i].name = "gcp_modify_gce_instance"
     /\ calls[i].params.machineType # <<>>
     /\ calls[i].spawns >= 1)
      => /\ Len(calls[i].steps) >= 1
         /\ calls[i].response.text \in
              { OperationBlock(1, calls[i].steps[1]) \o rest :
                  rest \in {""} \cup
                    { "\n\n" \o OperationBlock(2, calls[i].steps[k]) :
                        k \in 2..Len(calls[i].steps) } }

(***************************************************************************)
(* C26: azure_list_blobs stops enumerating once the cap is reached: it     *)
(* draws from the backing enumeration no item after the last one that it   *)
(* returns, hence at most maxResults items.                                *)
(***************************************************************************)
C26_BlobEnumerationStopsAtCap ==
  \A i \in CallIds :
    (Listing(i) /\ calls[i].name = "azure_list_blobs")
      => calls[i].sdk.drawn <= Len(calls[i].entries)

\* the operation that the storage tool of the name performs
OperationPrefix(name) ==
  CASE name = "gcp_list_buckets" -> "Failed to list buckets"
    [] name = "gcp_list_objects" -> "Failed to list objects"
    [] name = "gcp_read_object_content" -> "Failed to read object"
    [] name = "gcp_get_object_metadata" -> "Failed to get object metadata"
    [] name = "azure_list_containers" -> "Failed to list containers"
    [] name = "azure_list_blobs" -> "Failed to list blobs"
    [] name = "azure_read_blob_content" -> "Failed to read blob"
    [] name = "azure_get_blob_metadata" -> "Failed to get blob metadata"
    [] OTHER -> ""

TextsWithStderr(i, r) ==
  { TripleJson(r),
    r.stderr,
    "Error: Failed to list storage accounts: " \o r.stderr }
  \cup { OperationBlock(1, calls[i].steps[1]) : k \in 1..Len(calls[i].steps) }
  \cup { OperationBlock(1, calls[i].steps[1]) \o "\n\n"
           \o OperationBlock(2, calls[i].steps[k]) : k \in 2..Len(calls[i].steps) }

\* a command of call i failed with a non-empty stderr: the result of it
FailedWithStderr(i) ==
  { r \in {calls[i].result} \cup { calls[i].steps[k] : k \in 1..Len(calls[i].steps) } :
      r.exitCode # JsNum(0) /\ r.stderr # "" /\ calls[i].result.has }

(***************************************************************************)
(* C28: execution failures are reported as they are: for every tool that   *)
(* runs a command, when the command fails with a non-empty stderr, the     *)
(* text of the response contains that stderr (the diagnostic is not        *)
(* replaced by an empty list, an empty object or a generic message).       *)
(***************************************************************************)
C28_FailedCommandReportsStderr ==
  \A i \in CallIds :
    (Replied(i) /\ AnsweredEnvelope(i))
      => \A r \in FailedWithStderr(i) :
           calls[i].response.text \in TextsWithStderr(i, r)

FixedTemplateTools ==
  {"gcp_list_gce_instances", "gcp_get_gce_instance_info", "gcp_start_gce_instance",
   "gcp_stop_gce_instance", "gcp_restart_gce_instance", "gcp_modify_gce_instance",
   "azure_list_storage_accounts"}

(***************************************************************************)
(* C29: the commands that the fixed-template handlers build always pass    *)
(* the validator: for every non-empty instance name, zone, status, machine *)
(* type and resource group, the handler reaches execution rather than      *)
(* being rejected by the denylist or by the '--format' + 'eval' rule (for  *)
(* example an instance whose name contains 'eval').                        *)
(***************************************************************************)
C29_TemplateCommandsPassValidator ==
  \A i \in CallIds :
    (/\ calls[i].pc # "idle"
     /\ calls[i].name \in FixedTemplateTools
     /\ ~MissingRequired(i)
     /\ LabelsPermitted(i))
      => /\ calls[i].validation.called
         /\ calls[i].validation.valid
         /\ Spawned(i)

\* the positions of listTools that hold the name
ListedAt(name) == { k \in 1..Len(listTools) : listTools[k] = name }

(***************************************************************************)
(* C30: every tool name returned by listTools (the GCP tools followed by   *)
(* the Azure tools) is dispatchable: it starts with the prefix of its      *)
(* provider, so that every front-end routes it to the handler set of that  *)
(* provider, and handleTool of that set has a handler for it, so that no   *)
(* listed name ever yields an unknown-tool error.                          *)
(***************************************************************************)
C30_ListedToolsAreDispatchable ==
  /\ \A k \in 1..Len(listTools) :
       IF k <= Len(gcpListTools) THEN HasGcpPrefix(listTools[k])
                                 ELSE HasAzurePrefix(listTools[k])
  /\ \A i \in CallIds :
       (calls[i].pc # "idle" /\ ListedAt(calls[i].toolName) # {})
         => /\ calls[i].provider =
                 (IF \E k \in ListedAt(calls[i].toolName) : k <= Len(gcpListTools)
                    THEN "gcp" ELSE "azure")
            /\ ~calls[i].reply.raised
            /\ calls[i].reply.error = ""
            /\ calls[i].thrown.message \notin
                 { "Unknown tool: " \o calls[i].name,
                   "Unknown GCP tool: " \o calls[i].name,
                   "Unknown Azure tool: " \o calls[i].name }
            /\ Replied(i) => AnsweredEnvelope(i)

\* the last listed tool has been dispatched and has answered
C30_Witness ==
  \E i \in CallIds :
    /\ Replied(i)
    /\ calls[i].toolName = listTools[Len(listTools)]
    /\ calls[i].name = "azure_get_blob_metadata"
    /\ calls[i].provider = "azure"
    /\ calls[i].sdk.status = "resolved"
    /\ ~calls[i].response.isError

====
